---- MODULE Spec2Model ----
(***************************************************************************)
(* GestureFlow: the gesture-driven interaction engine.                     *)
(*                                                                         *)
(*   src/unnamed/part_002  HandTracker (classifier, producer) and Scene3D  *)
(*                         (InteractionManager: pick / drag / commit)      *)
(*   src/App.tsx           App (hold detection, radial menu, menu clicks,  *)
(*                         object store)                                   *)
(*   src/unnamed/part_001  types (AppMode, GestureType, HandData, ...)     *)
(*   src/constants.ts      PINCH_THRESHOLD, INITIAL_OBJECTS                *)
(*                                                                         *)
(* Real numbers are fixed-point integers with denominator FP.              *)
(* Scheduling: predictWebcam and the useFrame callback are both driven by  *)
(* requestAnimationFrame, so a display frame is one producer step (a new   *)
(* frame, or none) followed by one useFrame step; React runs the gesture   *)
(* effect after every render in which one of its dependencies changed.     *)
(***************************************************************************)
EXTENDS Integers, Sequences, FiniteSets, TLC

\* ------------------------------------------------------------------ bounds
MaxTicks == 4          \* the clock stops after MaxTicks steps of TickMs
MaxPicks == 1          \* ray casts that hit an object
MaxFrames == 3         \* processed frames of one gesture that are counted
MaxPreviewSteps == 5   \* useFrame steps taken in PLACING mode where the preview is examined
MaxColorPicks == 2     \* ray casts that hit an object where color drags are examined
MaxGhostSteps == 3     \* useFrame steps taken while the mode is PLACING
TickMs == 500          \* granularity of the Date.now() readings, in ms

\* ------------------------------------------------------- program constants
FP == 1000                   \* fixed-point denominator of every real number
PINCH_THRESHOLD == 50        \* 0.05
THUMB_FAR_THRESHOLD == 50    \* 0.05
HOLD_DURATION == 1000        \* ms
HUB_COOLDOWN == 800          \* ms
DEAD_ZONE == 50              \* px
PLACE_DISTANCE == 10000      \* 10 world units
LERP_DIV == 5                \* lerp(target, 0.2)
GROUND_SNAP == 1000          \* |y| < 1
GROUND_Y == 500              \* y = 0.5
MIN_SCALE_FACTOR == 100      \* Math.max(0.1, factor)
SENSITIVITY == 1500          \* 1.5
InnerWidth == 1200           \* px
InnerHeight == 1200          \* px

Null == [null |-> TRUE]
NoId == ""

Abs(n) == IF n < 0 THEN -n ELSE n
Min(a, b) == IF a < b THEN a ELSE b
Max(a, b) == IF a > b THEN a ELSE b
\* integer quotient rounded toward zero (the fixed-point image of a real quotient)
Quot(a, b) == IF a >= 0 THEN a \div b ELSE -((-a) \div b)

\* ------------------------------------------------------------------- types
AppModes == {"VIEW", "EDIT", "CREATE", "MENU", "PLACING", "RADIAL", "HUB", "SETTINGS"}
GestureTypes == {"NONE", "POINTING", "PINCH", "VICTORY", "ROCK", "THUMBS_UP",
                 "THUMB_DOWN", "THREE_FINGERS", "SHAKA"}
TransformModes == {"translate", "rotate", "scale", "color"}
ObjectTypes == {"box", "sphere", "torus", "cone"}

\* --------------------------------------------------------------- classifier
\* A decision tree with no default.
ClassifyGestureNoDefault(isIndexExt, isMiddleExt, isRingExt, isPinkyExt, isThumbFar, isThumbUp, isThumbDown, isPinching) ==
  IF isThumbFar /\ isPinkyExt /\ ~isIndexExt /\ ~isMiddleExt /\ ~isRingExt THEN "SHAKA"
  ELSE IF isPinching THEN "PINCH"
  ELSE IF isIndexExt /\ isMiddleExt /\ ~isRingExt /\ ~isPinkyExt THEN "VICTORY"
  ELSE IF isIndexExt /\ isPinkyExt /\ ~isMiddleExt /\ ~isRingExt THEN "ROCK"
  ELSE IF ~isIndexExt /\ ~isMiddleExt /\ ~isRingExt /\ ~isPinkyExt /\ isThumbFar /\ isThumbUp
       THEN "THUMBS_UP"
  ELSE IF ~isIndexExt /\ ~isMiddleExt /\ ~isRingExt /\ ~isPinkyExt /\ isThumbFar /\ isThumbDown
       THEN "THUMB_DOWN"
  ELSE IF isIndexExt /\ isMiddleExt /\ isRingExt /\ ~isPinkyExt THEN "THREE_FINGERS"
  ELSE IF isIndexExt /\ ~isMiddleExt /\ ~isRingExt /\ ~isPinkyExt THEN "POINTING"
  ELSE "undefined"

\* A decision tree that tests the pinch after the finger patterns.
ClassifyGesturePinchLast(isIndexExt, isMiddleExt, isRingExt, isPinkyExt, isThumbFar, isThumbUp, isThumbDown, isPinching) ==
  IF isThumbFar /\ isPinkyExt /\ ~isIndexExt /\ ~isMiddleExt /\ ~isRingExt THEN "SHAKA"
  ELSE IF isIndexExt /\ isMiddleExt /\ ~isRingExt /\ ~isPinkyExt THEN "VICTORY"
  ELSE IF isIndexExt /\ isPinkyExt /\ ~isMiddleExt /\ ~isRingExt THEN "ROCK"
  ELSE IF ~isIndexExt /\ ~isMiddleExt /\ ~isRingExt /\ ~isPinkyExt /\ isThumbFar /\ isThumbUp
       THEN "THUMBS_UP"
  ELSE IF ~isIndexExt /\ ~isMiddleExt /\ ~isRingExt /\ ~isPinkyExt /\ isThumbFar /\ isThumbDown
       THEN "THUMB_DOWN"
  ELSE IF isIndexExt /\ isMiddleExt /\ isRingExt /\ ~isPinkyExt THEN "THREE_FINGERS"
  ELSE IF isIndexExt /\ ~isMiddleExt /\ ~isRingExt /\ ~isPinkyExt THEN "POINTING"
  ELSE IF isPinching THEN "PINCH"
  ELSE "NONE"

\* A decision tree whose pointing rule reads the index finger alone.
ClassifyGestureLoosePointing(isIndexExt, isMiddleExt, isRingExt, isPinkyExt, isThumbFar, isThumbUp, isThumbDown, isPinching) ==
  IF isThumbFar /\ isPinkyExt /\ ~isIndexExt /\ ~isMiddleExt /\ ~isRingExt THEN "SHAKA"
  ELSE IF isPinching THEN "PINCH"
  ELSE IF isIndexExt /\ isMiddleExt /\ ~isRingExt /\ ~isPinkyExt THEN "VICTORY"
  ELSE IF isIndexExt /\ isPinkyExt /\ ~isMiddleExt /\ ~isRingExt THEN "ROCK"
  ELSE IF ~isIndexExt /\ ~isMiddleExt /\ ~isRingExt /\ ~isPinkyExt /\ isThumbFar /\ isThumbUp
       THEN "THUMBS_UP"
  ELSE IF ~isIndexExt /\ ~isMiddleExt /\ ~isRingExt /\ ~isPinkyExt /\ isThumbFar /\ isThumbDown
       THEN "THUMB_DOWN"
  ELSE IF isIndexExt /\ isMiddleExt /\ isRingExt /\ ~isPinkyExt THEN "THREE_FINGERS"
  ELSE IF isIndexExt THEN "POINTING"
  ELSE "NONE"

\* A decision tree that tests the Rock posture before the pinch.
ClassifyGestureRockBeforePinch(isIndexExt, isMiddleExt, isRingExt, isPinkyExt, isThumbFar, isThumbUp, isThumbDown, isPinching) ==
  IF isThumbFar /\ isPinkyExt /\ ~isIndexExt /\ ~isMiddleExt /\ ~isRingExt THEN "SHAKA"
  ELSE IF isIndexExt /\ isPinkyExt /\ ~isMiddleExt /\ ~isRingExt THEN "ROCK"
  ELSE IF isPinching THEN "PINCH"
  ELSE IF isIndexExt /\ isMiddleExt /\ ~isRingExt /\ ~isPinkyExt THEN "VICTORY"
  ELSE IF ~isIndexExt /\ ~isMiddleExt /\ ~isRingExt /\ ~isPinkyExt /\ isThumbFar /\ isThumbUp
       THEN "THUMBS_UP"
  ELSE IF ~isIndexExt /\ ~isMiddleExt /\ ~isRingExt /\ ~isPinkyExt /\ isThumbFar /\ isThumbDown
       THEN "THUMB_DOWN"
  ELSE IF isIndexExt /\ isMiddleExt /\ isRingExt /\ ~isPinkyExt THEN "THREE_FINGERS"
  ELSE IF isIndexExt /\ ~isMiddleExt /\ ~isRingExt /\ ~isPinkyExt THEN "POINTING"
  ELSE "NONE"

\* The decision tree of predictWebcam over the finger states.
ClassifyGesture(isIndexExt, isMiddleExt, isRingExt, isPinkyExt, isThumbFar, isThumbUp, isThumbDown, isPinching) ==
  IF isThumbFar /\ isPinkyExt /\ ~isIndexExt /\ ~isMiddleExt /\ ~isRingExt THEN "SHAKA"
  ELSE IF isPinching THEN "PINCH"
  ELSE IF isIndexExt /\ isMiddleExt /\ ~isRingExt /\ ~isPinkyExt THEN "VICTORY"
  ELSE IF isIndexExt /\ isPinkyExt /\ ~isMiddleExt /\ ~isRingExt THEN "ROCK"
  ELSE IF ~isIndexExt /\ ~isMiddleExt /\ ~isRingExt /\ ~isPinkyExt /\ isThumbFar /\ isThumbUp
       THEN "THUMBS_UP"
  ELSE IF ~isIndexExt /\ ~isMiddleExt /\ ~isRingExt /\ ~isPinkyExt /\ isThumbFar /\ isThumbDown
       THEN "THUMB_DOWN"
  ELSE IF isIndexExt /\ isMiddleExt /\ isRingExt /\ ~isPinkyExt THEN "THREE_FINGERS"
  ELSE IF isIndexExt /\ ~isMiddleExt /\ ~isRingExt /\ ~isPinkyExt THEN "POINTING"
  ELSE "NONE"

\* Hand geometry reduced to what the classifier reads: the four extension
\* tests, the thumb-tip to index-knuckle distance, the thumb tip's Y minus
\* the thumb joint's Y, the thumb-tip to index-tip distance and the index
\* tip in image coordinates.
Fingers(i, m, r, p) == [isIndexExt |-> i, isMiddleExt |-> m, isRingExt |-> r, isPinkyExt |-> p]
FingerShapes ==
  {Fingers(FALSE, FALSE, FALSE, FALSE), Fingers(TRUE, TRUE, FALSE, FALSE),
   Fingers(TRUE, FALSE, FALSE, TRUE), Fingers(TRUE, TRUE, TRUE, FALSE),
   Fingers(FALSE, FALSE, FALSE, TRUE)}
ThumbDists == {80}
ThumbDeltaYs == {0}
PinchDists == {30, 50}
IndexTips == {<<500, 500>>, <<500, 0>>, <<0, 500>>, <<1000, 500>>}

Landmarks ==
  {[fingers |-> f, thumbToIndexPip |-> d, thumbDeltaY |-> y, pinchDist |-> p, indexTip |-> c] :
     f \in FingerShapes, d \in ThumbDists, y \in ThumbDeltaYs, p \in PinchDists, c \in IndexTips}

\* The HandData record predictWebcam hands to onHandUpdate.
HandDataOf(lm) ==
  LET isThumbFar == lm.thumbToIndexPip > THUMB_FAR_THRESHOLD
      isThumbUp == lm.thumbDeltaY < 0
      isThumbDown == lm.thumbDeltaY > 0
      isPinching == lm.pinchDist < PINCH_THRESHOLD
  IN [x |-> (lm.indexTip[1] * 2 - FP) * (-1),
      y |-> (lm.indexTip[2] * 2 - FP) * (-1),
      gesture |-> ClassifyGesture(lm.fingers.isIndexExt, lm.fingers.isMiddleExt,
                                  lm.fingers.isRingExt, lm.fingers.isPinkyExt,
                                  isThumbFar, isThumbUp, isThumbDown, isPinching),
      pinchDistance |-> lm.pinchDist,
      isPinching |-> isPinching]

HandFrames == {HandDataOf(lm) : lm \in Landmarks}

\* ------------------------------------------------------------------- state
VARIABLES
  now,                     \* Date.now()
  turn,                    \* whose requestAnimationFrame callback runs next
  dirty,                   \* a dependency of the gesture effect changed
  handData, objects, selectedId, mode, transformMode, pendingObjectType,
  holdStart, activeProgress, activeRadialSector, hubTab, hubPinchCooldown,
  gestureSettings, hubTimer,   \* App's React state and its pending timeout
  prevHandPos, waitingForPinchRelease, dragRef, ghostPos,
                           \* InteractionManager's state and refs
  meshes,                  \* the rendered meshes, by name: local pose and material colour
  hist                     \* history of the run (observations, not program state)

appVars == <<handData, objects, selectedId, mode, transformMode, pendingObjectType,
             holdStart, activeProgress, activeRadialSector, hubTab, hubPinchCooldown,
             gestureSettings, hubTimer>>
imVars == <<prevHandPos, waitingForPinchRelease, dragRef, ghostPos, meshes>>
vars == <<now, turn, dirty, appVars, imVars, hist>>

\* The values the gesture effect closes over, as one record; fired records
\* which hold transition the run of the effect committed ("" for none) and
\* firedStart the holdStart.time it was measured from.
AppState ==
  [handData |-> handData, objects |-> objects, selectedId |-> selectedId, mode |-> mode,
   transformMode |-> transformMode, pendingObjectType |-> pendingObjectType,
   holdStart |-> holdStart, activeProgress |-> activeProgress,
   activeRadialSector |-> activeRadialSector, hubTab |-> hubTab,
   hubPinchCooldown |-> hubPinchCooldown, hubTimer |-> hubTimer, fired |-> "", firedStart |-> -1]

\* ------------------------------------------------- App: the gesture effect
\* A callback that passes every frame on as it is.
FilterGesturePassesAll(data, settings) == data

\* A downgrade that also takes the pinch away.
FilterGestureDropsPinch(data, settings) ==
  IF data # Null /\ data.gesture # "NONE" /\ data.gesture # "SHAKA" /\ data.gesture # "ROCK"
     /\ data.gesture \in DOMAIN settings /\ settings[data.gesture] = FALSE
  THEN [data EXCEPT !.gesture = "NONE", !.isPinching = FALSE]
  ELSE data

\* handleHandUpdate: a gesture disabled in the settings is passed on as NONE.
FilterGesture(data, settings) ==
  IF data # Null /\ data.gesture # "NONE" /\ data.gesture # "SHAKA" /\ data.gesture # "ROCK"
     /\ data.gesture \in DOMAIN settings /\ settings[data.gesture] = FALSE
  THEN [data EXCEPT !.gesture = "NONE"]
  ELSE data

\* Candidates that do not depend on the mode or the selection.
HoldCandidateAnyMode(g, m, sel) ==
  IF g = "SHAKA" THEN "CANCEL"
  ELSE IF g = "ROCK" THEN "SETTINGS"
  ELSE IF g = "VICTORY" THEN "MENU"
  ELSE IF g = "THREE_FINGERS" THEN "RADIAL"
  ELSE ""

\* Universal hold detection: the action the current gesture is a candidate for.
HoldCandidate(g, m, sel) ==
  IF g = "SHAKA" THEN "CANCEL"
  ELSE IF g = "ROCK" THEN "SETTINGS"
  ELSE IF g = "VICTORY" /\ m # "MENU" /\ m # "PLACING" THEN "MENU"
  ELSE IF g = "THREE_FINGERS" /\ sel # NoId /\ m # "RADIAL" THEN "RADIAL"
  ELSE ""

TargetLabel(action) ==
  CASE action = "CANCEL" -> "Canceling..."
    [] action = "SETTINGS" -> "Control Panel..."
    [] action = "MENU" -> "Opening Menu..."
    [] action = "RADIAL" -> "Radial Tools..."
    [] OTHER -> ""

\* progress * 100, in whole percent
ProgressValue(elapsed) == (Min(elapsed, HOLD_DURATION) * 100) \div HOLD_DURATION

\* A hold that needs more than the duration.
HoldCompleteLate(elapsed) == elapsed > HOLD_DURATION

\* A hold that completes as soon as it has started.
HoldCompleteAtOnce(elapsed) == elapsed >= 0

HoldComplete(elapsed) == elapsed >= HOLD_DURATION

\* A Rock hold that also clears the selection.
FireHoldSettingsDeselects(s, action) ==
  LET t == CASE action = "CANCEL" ->
                  [s EXCEPT !.mode = "VIEW", !.selectedId = NoId, !.pendingObjectType = ""]
             [] action = "SETTINGS" -> [s EXCEPT !.mode = "SETTINGS", !.selectedId = NoId]
             [] action = "MENU" -> [s EXCEPT !.mode = "MENU"]
             [] action = "RADIAL" -> [s EXCEPT !.mode = "RADIAL"]
             [] OTHER -> s
  IN [t EXCEPT !.holdStart = Null, !.activeProgress = Null, !.fired = action,
               !.firedStart = s.holdStart.time]

\* The state changes of a completed hold.
FireHold(s, action) ==
  LET t == CASE action = "CANCEL" ->
                  [s EXCEPT !.mode = "VIEW", !.selectedId = NoId, !.pendingObjectType = ""]
             [] action = "SETTINGS" -> [s EXCEPT !.mode = "SETTINGS"]
             [] action = "MENU" -> [s EXCEPT !.mode = "MENU"]
             [] action = "RADIAL" -> [s EXCEPT !.mode = "RADIAL"]
             [] OTHER -> s
  IN [t EXCEPT !.holdStart = Null, !.activeProgress = Null, !.fired = action,
               !.firedStart = s.holdStart.time]

\* A hold whose progress stays when the gesture is no candidate.
ProcessHoldKeepsProgress(c, t) ==
  LET g == c.handData.gesture
      action == HoldCandidate(g, c.mode, c.selectedId)
  IN IF action # ""
     THEN IF c.holdStart = Null \/ c.holdStart.type # g
          THEN [c EXCEPT !.holdStart = [type |-> g, time |-> t],
                         !.activeProgress = [label |-> TargetLabel(action), value |-> 0]]
          ELSE LET elapsed == t - c.holdStart.time
                   p == [c EXCEPT !.activeProgress =
                            [label |-> TargetLabel(action), value |-> ProgressValue(elapsed)]]
               IN IF HoldComplete(elapsed) THEN FireHold(p, action) ELSE p
     ELSE [c EXCEPT !.holdStart = Null]

\* A hold that keeps its start when the gesture changes.
ProcessHoldKeepsStart(c, t) ==
  LET g == c.handData.gesture
      action == HoldCandidate(g, c.mode, c.selectedId)
  IN IF action # ""
     THEN IF c.holdStart = Null
          THEN [c EXCEPT !.holdStart = [type |-> g, time |-> t],
                         !.activeProgress = [label |-> TargetLabel(action), value |-> 0]]
          ELSE LET elapsed == t - c.holdStart.time
                   p == [c EXCEPT !.holdStart = [type |-> g, time |-> c.holdStart.time],
                                  !.activeProgress =
                            [label |-> TargetLabel(action), value |-> ProgressValue(elapsed)]]
               IN IF HoldComplete(elapsed) THEN FireHold(p, action) ELSE p
     ELSE [c EXCEPT !.holdStart = Null, !.activeProgress = Null]

\* "Process Hold": c is the rendered state, t the clock reading.
ProcessHold(c, t) ==
  LET g == c.handData.gesture
      action == HoldCandidate(g, c.mode, c.selectedId)
  IN IF action # ""
     THEN IF c.holdStart = Null \/ c.holdStart.type # g
          THEN [c EXCEPT !.holdStart = [type |-> g, time |-> t],
                         !.activeProgress = [label |-> TargetLabel(action), value |-> 0]]
          ELSE LET elapsed == t - c.holdStart.time
                   p == [c EXCEPT !.activeProgress =
                            [label |-> TargetLabel(action), value |-> ProgressValue(elapsed)]]
               IN IF HoldComplete(elapsed) THEN FireHold(p, action) ELSE p
     ELSE [c EXCEPT !.holdStart = Null, !.activeProgress = Null]

\* Cursor in screen pixels.
ScreenX(x) == ((x + FP) * InnerWidth) \div (2 * FP)
ScreenY(y) == ((FP - y) * InnerHeight) \div (2 * FP)

\* sin and cos of the sector boundaries, times 10^6.
SinE6(a) == CASE a = 36 -> 587785 [] a = 108 -> 951057 [] a = 180 -> 0
              [] a = 252 -> -951057 [] a = 324 -> -587785
CosE6(a) == CASE a = 36 -> 809017 [] a = 108 -> -309017 [] a = 180 -> -1000000
              [] a = 252 -> -309017 [] a = 324 -> 809017

\* For the point (dx, dy) at clock angle clockDeg (0 at the top, clockwise, screen
\* Y downward) this is |(dx, dy)| * sin(clockDeg - a) * 10^6.
SinDiff(a, dx, dy) == SinE6(a) * dy + CosE6(a) * dx

\* a <= clockDeg < b, for a boundary pair less than 180 degrees apart
InArc(a, b, dx, dy) == SinDiff(a, dx, dy) >= 0 /\ SinDiff(b, dx, dy) < 0

\* The sector of the radial menu under the offset (dx, dy) from the centre.
SectorOf(dx, dy) ==
  IF InArc(324, 36, dx, dy) THEN "move"
  ELSE IF InArc(36, 108, dx, dy) THEN "rotate"
  ELSE IF InArc(108, 180, dx, dy) THEN "scale"
  ELSE IF InArc(180, 252, dx, dy) THEN "color"
  ELSE IF InArc(252, 324, dx, dy) THEN "delete"
  ELSE ""

\* The same chain on the angle itself, in tenths of a degree: deg is
\* Math.atan2(dy, dx) in degrees, in -180 .. 180.
DegFP == 10
ClockDeg(deg) ==
  LET clockDeg == deg + 90 * DegFP
  IN IF clockDeg < 0 THEN clockDeg + 360 * DegFP ELSE clockDeg

\* Sectors that own their upper boundary instead of their lower one.
SectorOfClockClosedAbove(clockDeg) ==
  IF clockDeg > 324 * DegFP \/ clockDeg <= 36 * DegFP THEN "move"
  ELSE IF clockDeg > 36 * DegFP /\ clockDeg <= 108 * DegFP THEN "rotate"
  ELSE IF clockDeg > 108 * DegFP /\ clockDeg <= 180 * DegFP THEN "scale"
  ELSE IF clockDeg > 180 * DegFP /\ clockDeg <= 252 * DegFP THEN "color"
  ELSE IF clockDeg > 252 * DegFP /\ clockDeg <= 324 * DegFP THEN "delete"
  ELSE ""

SectorOfClock(clockDeg) ==
  IF clockDeg >= 324 * DegFP \/ clockDeg < 36 * DegFP THEN "move"
  ELSE IF clockDeg >= 36 * DegFP /\ clockDeg < 108 * DegFP THEN "rotate"
  ELSE IF clockDeg >= 108 * DegFP /\ clockDeg < 180 * DegFP THEN "scale"
  ELSE IF clockDeg >= 180 * DegFP /\ clockDeg < 252 * DegFP THEN "color"
  ELSE IF clockDeg >= 252 * DegFP /\ clockDeg < 324 * DegFP THEN "delete"
  ELSE ""

\* A filter that keeps the object it should remove.
RemoveObjectKeepsSelected(objs, id) == SelectSeq(objs, LAMBDA o : o.id = id)

\* A dead zone that is the centre alone.
OutsideCentre(dx, dy) == dx * dx + dy * dy > 0

OutsideDeadZone(dx, dy) == dx * dx + dy * dy > DEAD_ZONE * DEAD_ZONE

RemoveObject(objs, id) == SelectSeq(objs, LAMBDA o : o.id # id)

\* A Delete that leaves the radial menu open.
RadialPinchDeleteStays(c, s, sector) ==
  CASE sector = "move" -> [s EXCEPT !.transformMode = "translate", !.mode = "EDIT"]
    [] sector = "rotate" -> [s EXCEPT !.transformMode = "rotate", !.mode = "EDIT"]
    [] sector = "scale" -> [s EXCEPT !.transformMode = "scale", !.mode = "EDIT"]
    [] sector = "color" -> [s EXCEPT !.transformMode = "color", !.mode = "EDIT"]
    [] sector = "delete" ->
         IF c.selectedId # NoId
         THEN [s EXCEPT !.objects = RemoveObject(s.objects, c.selectedId), !.selectedId = NoId]
         ELSE s
    [] OTHER -> s

\* A Delete that keeps the selection.
RadialPinchDeleteKeepsSelection(c, s, sector) ==
  CASE sector = "move" -> [s EXCEPT !.transformMode = "translate", !.mode = "EDIT"]
    [] sector = "rotate" -> [s EXCEPT !.transformMode = "rotate", !.mode = "EDIT"]
    [] sector = "scale" -> [s EXCEPT !.transformMode = "scale", !.mode = "EDIT"]
    [] sector = "color" -> [s EXCEPT !.transformMode = "color", !.mode = "EDIT"]
    [] sector = "delete" ->
         IF c.selectedId # NoId
         THEN [s EXCEPT !.objects = RemoveObject(s.objects, c.selectedId), !.mode = "VIEW"]
         ELSE [s EXCEPT !.mode = "VIEW"]
    [] OTHER -> s

\* What a pinch does to the state with the sector active.
RadialPinch(c, s, sector) ==
  CASE sector = "move" -> [s EXCEPT !.transformMode = "translate", !.mode = "EDIT"]
    [] sector = "rotate" -> [s EXCEPT !.transformMode = "rotate", !.mode = "EDIT"]
    [] sector = "scale" -> [s EXCEPT !.transformMode = "scale", !.mode = "EDIT"]
    [] sector = "color" -> [s EXCEPT !.transformMode = "color", !.mode = "EDIT"]
    [] sector = "delete" ->
         IF c.selectedId # NoId
         THEN [s EXCEPT !.objects = RemoveObject(s.objects, c.selectedId),
                        !.selectedId = NoId, !.mode = "VIEW"]
         ELSE [s EXCEPT !.mode = "VIEW"]
    [] OTHER -> s

\* "Radial Menu Interaction": c is the rendered state, s the state being set.
RadialLogic(c, s) ==
  IF c.mode = "RADIAL"
  THEN LET dx == ScreenX(c.handData.x) - InnerWidth \div 2
           dy == ScreenY(c.handData.y) - InnerHeight \div 2
       IN IF OutsideDeadZone(dx, dy)
          THEN LET sector == SectorOf(dx, dy)
                   s1 == [s EXCEPT !.activeRadialSector = sector]
               IN IF c.handData.isPinching THEN RadialPinch(c, s1, sector) ELSE s1
          ELSE [s EXCEPT !.activeRadialSector = ""]
  ELSE s

\* document.elementFromPoint: no element, or an element with its data-create-type
\* and data-hub-tab attributes ("" when absent).
CreateAffordances == {"sphere"}
ElementsAt(m) ==
  {Null, [createType |-> "", hubTab |-> ""]}
    \cup (IF m = "MENU" THEN {[createType |-> k, hubTab |-> ""] : k \in CreateAffordances}
          ELSE {})
    \cup (IF m = "HUB" THEN {[createType |-> "", hubTab |-> h] : h \in {"guide", "ai"}}
          ELSE {})

\* A tab toggle whose timeout has no delay.
MenuLogicShortCooldown(c, s, element, t) ==
  IF c.mode \in {"MENU", "HUB", "SETTINGS"} /\ c.handData.isPinching
  THEN LET s1 == IF element # Null /\ element.createType # ""
                 THEN [s EXCEPT !.pendingObjectType = element.createType, !.mode = "PLACING"]
                 ELSE s
           s2 == IF element # Null /\ element.hubTab # ""
                 THEN [s1 EXCEPT !.hubTab = element.hubTab]
                 ELSE s1
       IN IF c.mode = "HUB" /\ (element = Null \/ element.hubTab = "") /\ ~c.hubPinchCooldown
          THEN [s2 EXCEPT !.hubTab = IF s2.hubTab = "guide" THEN "ai" ELSE "guide",
                          !.hubPinchCooldown = TRUE,
                          !.hubTimer = t]
          ELSE s2
  ELSE s

\* A menu click that takes every element for a creation affordance.
MenuLogicAnyElement(c, s, element, t) ==
  IF c.mode \in {"MENU", "HUB", "SETTINGS"} /\ c.handData.isPinching /\ element # Null
  THEN [s EXCEPT !.pendingObjectType = element.createType, !.mode = "PLACING"]
  ELSE s

\* A menu click that records the kind and leaves the mode.
MenuLogicKeepsMode(c, s, element, t) ==
  IF c.mode \in {"MENU", "HUB", "SETTINGS"} /\ c.handData.isPinching
     /\ element # Null /\ element.createType # ""
  THEN [s EXCEPT !.pendingObjectType = element.createType]
  ELSE s

\* "2D Interaction in MENU, HUB or SETTINGS Mode"
\* A pinch in the control panel that presses the help button under the cursor.
MenuLogicPinchOpensHub(c, s, element, t) ==
  IF c.mode = "SETTINGS" /\ c.handData.isPinching /\ element # Null
  THEN [s EXCEPT !.mode = "HUB"]
  ELSE s

MenuLogic(c, s, element, t) ==
  IF c.mode \in {"MENU", "HUB", "SETTINGS"} /\ c.handData.isPinching
  THEN LET s1 == IF element # Null /\ element.createType # ""
                 THEN [s EXCEPT !.pendingObjectType = element.createType, !.mode = "PLACING"]
                 ELSE s
           s2 == IF element # Null /\ element.hubTab # ""
                 THEN [s1 EXCEPT !.hubTab = element.hubTab]
                 ELSE s1
       IN IF c.mode = "HUB" /\ (element = Null \/ element.hubTab = "") /\ ~c.hubPinchCooldown
          THEN [s2 EXCEPT !.hubTab = IF s2.hubTab = "guide" THEN "ai" ELSE "guide",
                          !.hubPinchCooldown = TRUE,
                          !.hubTimer = t + HUB_COOLDOWN]
          ELSE s2
  ELSE s

\* One run of the gesture effect on the rendered state c at clock reading t.
GestureLogic(c, t, element) ==
  IF c.handData = Null
  THEN [c EXCEPT !.holdStart = Null, !.activeProgress = Null]
  ELSE MenuLogic(c, RadialLogic(c, ProcessHold(c, t)), element, t)

\* ------------------------------------------------- the object store and scene
Vec(x, y, z) == <<x, y, z>>
VecAdd(a, b) == <<a[1] + b[1], a[2] + b[2], a[3] + b[3]>>
VecSub(a, b) == <<a[1] - b[1], a[2] - b[2], a[3] - b[3]>>

\* Colours as hue, saturation, lightness; the store holds them as hex strings.
ColorInitial == [h |-> 664, s |-> 840, l |-> 667]     \* '#6366f1'
ColorWhite == [h |-> 0, s |-> 0, l |-> FP]            \* '#ffffff'
ColorHighlight == [h |-> 944, s |-> FP, l |-> 500]    \* '#ff0055'

\* '#' + color.getHexString(), read back: a grey has no hue, black and white
\* have neither hue nor saturation.
HexString(c) ==
  IF c.l = 0 \/ c.l = FP THEN [h |-> 0, s |-> 0, l |-> c.l]
  ELSE IF c.s = 0 THEN [h |-> 0, s |-> 0, l |-> c.l]
  ELSE c

INITIAL_OBJECTS ==
  <<[id |-> "cube-1", type |-> "box", position |-> Vec(0, 0, 0), rotation |-> Vec(0, 0, 0),
     scale |-> Vec(FP, FP, FP), color |-> ColorInitial]>>

ObjectIds(objs) == {objs[i].id : i \in 1..Len(objs)}
\* the first object with the id (scene.getObjectByName, Array.prototype.find)
ObjectById(objs, id) == objs[CHOOSE i \in 1..Len(objs) :
                               objs[i].id = id /\ \A j \in 1..(i - 1) : objs[j].id # id]

\* handleUpdateObject
UpdateObject(objs, id, updates) ==
  [i \in 1..Len(objs) |->
     IF objs[i].id = id
     THEN [f \in DOMAIN objs[i] |-> IF f \in DOMAIN updates THEN updates[f] ELSE objs[i][f]]
     ELSE objs[i]]

\* The color prop of an object's material.
MaterialProp(obj, sel) == IF sel = obj.id THEN ColorHighlight ELSE obj.color

\* A mesh as mounted: the pose is the mesh's own (local to the group that
\* carries the stored pose).
NewMesh(obj, sel) ==
  [position |-> Vec(0, 0, 0), rotation |-> Vec(0, 0, 0), scale |-> Vec(FP, FP, FP),
   color |-> MaterialProp(obj, sel)]

\* A render that leaves the meshes of removed objects in the scene.
ReconcileKeepsRemoved(ms, oldObjs, oldSel, newObjs, newSel) ==
  [id \in DOMAIN ms \cup ObjectIds(newObjs) |->
     IF id \notin ObjectIds(newObjs) THEN ms[id]
     ELSE IF id \in DOMAIN ms THEN ms[id]
     ELSE NewMesh(ObjectById(newObjs, id), newSel)]

\* React's render of the object list: meshes are mounted and unmounted with
\* their objects, and a material colour is set when its prop changes.
Reconcile(ms, oldObjs, oldSel, newObjs, newSel) ==
  [id \in ObjectIds(newObjs) |->
     LET obj == ObjectById(newObjs, id)
     IN IF id \in DOMAIN ms /\ id \in ObjectIds(oldObjs)
        THEN IF MaterialProp(ObjectById(oldObjs, id), oldSel) # MaterialProp(obj, newSel)
             THEN [ms[id] EXCEPT !.color = MaterialProp(obj, newSel)]
             ELSE ms[id]
        ELSE NewMesh(obj, newSel)]

\* ------------------------------------- InteractionManager: the frame callback
InitialDrag ==
  [isDragging |-> FALSE, targetId |-> NoId, distanceToCamera |-> PLACE_DISTANCE,
   startCursorPos |-> Vec(0, 0, 0), startObjPos |-> Vec(0, 0, 0),
   startObjRot |-> Vec(0, 0, 0), startObjScale |-> Vec(0, 0, 0),
   startColorHSL |-> [h |-> 0, s |-> 0, l |-> 0]]

\* The point at distance dist from the viewpoint on the ray through the cursor
\* (viewpoint at the origin looking down -z, the ray direction not normalised).
CursorWorld(x, y, dist) == Vec(Quot(x * dist, FP), Quot(y * dist, FP), -dist)

ProjectionDistance(d) == IF d.isDragging THEN d.distanceToCamera ELSE PLACE_DISTANCE

\* A preview that is never snapped.
SnapGhostNever(g) == g

\* ghost.position.lerp(cursorPos, 0.2), then the ground snap
LerpGhost(g, target) ==
  Vec(g[1] + Quot(target[1] - g[1], LERP_DIV), g[2] + Quot(target[2] - g[2], LERP_DIV),
      g[3] + Quot(target[3] - g[3], LERP_DIV))
SnapGhost(g) == IF Abs(g[2]) < GROUND_SNAP THEN Vec(g[1], GROUND_Y, g[3]) ELSE g

ObjectId(t) == "obj-" \o ToString(t)

\* A placement that ignores the position it is given.
PlaceObjectAtOrigin(s, position, t) ==
  IF s.pendingObjectType = "" THEN s
  ELSE [s EXCEPT !.objects = Append(@, [id |-> ObjectId(t), type |-> s.pendingObjectType,
                                        position |-> Vec(0, 0, 0), rotation |-> Vec(0, 0, 0),
                                        scale |-> Vec(FP, FP, FP), color |-> ColorWhite]),
                 !.selectedId = ObjectId(t), !.mode = "EDIT", !.pendingObjectType = "",
                 !.placed = TRUE]

\* A placement that stays in PLACING mode.
PlaceObjectStaysPlacing(s, position, t) ==
  IF s.pendingObjectType = "" THEN s
  ELSE [s EXCEPT !.objects = Append(@, [id |-> ObjectId(t), type |-> s.pendingObjectType,
                                        position |-> position, rotation |-> Vec(0, 0, 0),
                                        scale |-> Vec(FP, FP, FP), color |-> ColorWhite]),
                 !.selectedId = ObjectId(t), !.pendingObjectType = "", !.placed = TRUE]

\* handlePlaceObject
PlaceObject(s, position, t) ==
  IF s.pendingObjectType = "" THEN s
  ELSE [s EXCEPT !.objects = Append(@, [id |-> ObjectId(t), type |-> s.pendingObjectType,
                                        position |-> position, rotation |-> Vec(0, 0, 0),
                                        scale |-> Vec(FP, FP, FP), color |-> ColorWhite]),
                 !.selectedId = ObjectId(t), !.mode = "EDIT", !.pendingObjectType = "",
                 !.placed = TRUE]

\* A session opened without its target.
StartDragNoTarget(d, hit, cursorPos, ms) ==
  [d EXCEPT !.isDragging = TRUE, !.distanceToCamera = hit.distance, !.startCursorPos = cursorPos]

\* The session a hit opens.
StartDrag(d, hit, cursorPos, ms) ==
  LET d1 == [d EXCEPT !.isDragging = TRUE, !.targetId = hit.id,
                      !.distanceToCamera = hit.distance, !.startCursorPos = cursorPos]
  IN IF hit.id \in DOMAIN ms
     THEN [d1 EXCEPT !.startObjPos = ms[hit.id].position, !.startObjRot = ms[hit.id].rotation,
                     !.startObjScale = ms[hit.id].scale, !.startColorHSL = ms[hit.id].color]
     ELSE d1

\* CASE A: start pinch
CaseA(c, s, hit, cursorPos, t) ==
  IF c.mode = "PLACING" THEN PlaceObject(s, s.ghostPos, t)
  ELSE IF (c.mode = "EDIT" \/ c.mode = "VIEW") /\ hit # Null
       THEN [s EXCEPT !.selectedId = hit.id,
                      !.dragRef = StartDrag(s.dragRef, hit, cursorPos, s.meshes),
                      !.picked = TRUE]
       ELSE s

\* A remainder that keeps its sign.
WrapHueNoShift(v) == IF v >= 0 THEN v % FP ELSE -((-v) % FP)

\* hsl.h = (hsl.h + v) % 1; if (hsl.h < 0) hsl.h += 1
WrapHue(v) ==
  LET r == IF v >= 0 THEN v % FP ELSE -((-v) % FP)
  IN IF r < 0 THEN r + FP ELSE r

\* A factor that is not clamped.
SafeFactorUnclamped(factor) == factor

SafeFactor(factor) == Max(MIN_SCALE_FACTOR, factor)

\* The live edit of the dragged mesh.
ApplyDrag(m, d, delta, tmode) ==
  CASE tmode = "translate" -> [m EXCEPT !.position = VecAdd(d.startObjPos, delta)]
    [] tmode = "rotate" ->
         [m EXCEPT !.rotation = Vec(d.startObjRot[1] + Quot(delta[2] * 2 * SENSITIVITY, FP),
                                    d.startObjRot[2] + Quot(delta[1] * 2 * SENSITIVITY, FP),
                                    m.rotation[3])]
    [] tmode = "scale" ->
         LET f == SafeFactor(FP + Quot(delta[2] * SENSITIVITY, FP))
         IN [m EXCEPT !.scale = Vec(Quot(d.startObjScale[1] * f, FP),
                                    Quot(d.startObjScale[2] * f, FP),
                                    Quot(d.startObjScale[3] * f, FP))]
    [] tmode = "color" ->
         [m EXCEPT !.color = [h |-> WrapHue(d.startColorHSL.h
                                            + Quot(delta[1] * SENSITIVITY, 2 * FP)),
                              s |-> d.startColorHSL.s, l |-> d.startColorHSL.l]]
    [] OTHER -> m

\* A drag that writes every live edit through to the store.
CaseBWriteThrough(c, s, cursorPos) ==
  IF c.handData.isPinching /\ s.dragRef.isDragging /\ s.dragRef.targetId # NoId
     /\ s.dragRef.targetId \in DOMAIN s.meshes
  THEN LET m == ApplyDrag(s.meshes[s.dragRef.targetId], s.dragRef,
                          VecSub(cursorPos, s.dragRef.startCursorPos), c.transformMode)
       IN [s EXCEPT !.meshes[s.dragRef.targetId] = m,
                    !.objects = UpdateObject(@, s.dragRef.targetId,
                                             [position |-> m.position, rotation |-> m.rotation,
                                              scale |-> m.scale])]
  ELSE s

\* CASE B: dragging
CaseB(c, s, cursorPos) ==
  IF c.handData.isPinching /\ s.dragRef.isDragging /\ s.dragRef.targetId # NoId
     /\ s.dragRef.targetId \in DOMAIN s.meshes
  THEN [s EXCEPT !.meshes[s.dragRef.targetId] =
                    ApplyDrag(@, s.dragRef, VecSub(cursorPos, s.dragRef.startCursorPos),
                              c.transformMode)]
  ELSE s

\* What the commit writes to the store.
CommitUpdates(m, tmode) ==
  IF tmode = "color" THEN [color |-> HexString(m.color)]
  ELSE [position |-> m.position, rotation |-> m.rotation, scale |-> m.scale]

EndPinch(isPinching, wasPinching, d) == ~isPinching /\ wasPinching /\ d.isDragging

\* A commit that leaves the session open.
EndDragKeepsSession(d) == d

EndDrag(d) == [d EXCEPT !.isDragging = FALSE, !.targetId = NoId]

\* CASE C: end pinch
CaseC(c, s, wasPinching) ==
  IF EndPinch(c.handData.isPinching, wasPinching, s.dragRef)
  THEN LET id == s.dragRef.targetId
           s1 == IF id # NoId /\ id \in DOMAIN s.meshes
                 THEN [s EXCEPT !.objects = UpdateObject(@, id,
                                                CommitUpdates(s.meshes[id], c.transformMode)),
                                !.updated = Append(@, id)]
                 ELSE s
       IN [s1 EXCEPT !.dragRef = EndDrag(@)]
  ELSE s

\* prevHandPos; its x and y are never read, and are left out
PrevOf(hd) == [gestureWasPinch |-> hd.isPinching]

\* The useFrame callback on the rendered props c and the manager's state im;
\* hit is the nearest object under the ray, t the clock reading.
FrameLogic(c, im, hit, t) ==
  LET s0 == [objects |-> c.objects, selectedId |-> c.selectedId, mode |-> c.mode,
             pendingObjectType |-> c.pendingObjectType, prevHandPos |-> im.prevHandPos,
             waitingForPinchRelease |-> im.waitingForPinchRelease, dragRef |-> im.dragRef,
             ghostPos |-> im.ghostPos, meshes |-> im.meshes,
             updated |-> <<>>, picked |-> FALSE, placed |-> FALSE]
  IN IF c.handData = Null \/ c.mode \in {"MENU", "RADIAL", "HUB", "SETTINGS"}
     THEN [s0 EXCEPT !.dragRef.isDragging = FALSE]
     ELSE LET hd == c.handData
              cursorPos == CursorWorld(hd.x, hd.y, ProjectionDistance(im.dragRef))
              s1 == IF c.mode = "PLACING"
                    THEN [s0 EXCEPT !.ghostPos = SnapGhost(LerpGhost(@, cursorPos))]
                    ELSE s0
          IN IF im.waitingForPinchRelease
             THEN [s1 EXCEPT !.waitingForPinchRelease = IF ~hd.isPinching THEN FALSE ELSE @,
                             !.prevHandPos = PrevOf(hd)]
             ELSE LET wasPinching == IF im.prevHandPos = Null THEN FALSE
                                     ELSE im.prevHandPos.gestureWasPinch
                      sA == IF hd.isPinching /\ ~wasPinching
                            THEN CaseA(c, s1, hit, cursorPos, t) ELSE s1
                      sB == CaseB(c, sA, cursorPos)
                      sC == CaseC(c, sB, wasPinching)
                  IN [sC EXCEPT !.prevHandPos = PrevOf(hd)]

\* A manager that never waits for the pinch to be released.
WaitNever(waiting, oldMode, newMode) == FALSE

\* The effect on [mode] of the manager: it runs when the rendered mode changed.
WaitAfterRender(waiting, oldMode, newMode) ==
  IF newMode # oldMode THEN newMode = "PLACING" ELSE waiting

\* ------------------------------------------------------------------ history
\* fired, firedStart: the hold transition of the last run of the gesture effect
\*   and the time its hold had started.
\* updated: the ids onUpdateObject was called with in the last frame callback.
\* stalled: the producer delivered nothing in the current display frame.
\* streak: the gesture of the last processed frames, since when, and the hold
\*   transitions fired while it lasted.
\* picksLeft, ghostStepsLeft: the ray-cast hits and the PLACING frames left to the run.
\* probe: the one input a run is given, where a run examines a function.
\* held: the mode is RADIAL and the frame rendered before the current one was
\*   pinching.
\* frames: how many frames in a row, up to MaxFrames, have carried the gesture
\*   of the last one; -1 where a run does not count them.
\* sess: the last drag session: the store and cursor at the pick, the cursor of
\*   its last dragged frame, whether a Shaka hold completed while it was open
\*   and the pinch held,
\*   the ids its store updates were keyed by, how it ended, and whether the
\*   last import made while it was open left its target out of the store.
NoStreak == [gesture |-> "", since |-> 0, fires |-> 0, lastFire |-> 0]
NoSession ==
  [id |-> NoId, store |-> <<>>, tmode |-> "", pickCursor |-> <<0, 0>>, lastCursor |-> <<0, 0>>,
   cancelled |-> FALSE, written |-> <<>>, endedBy |-> "", stale |-> FALSE]
\* plc: placement and picking. released: a frame with isPinching false has been
\*   processed by the frame callback since the mode last became PLACING. event:
\*   what the last step, a frame callback, started ("place", "pick" or ""), with
\*   released as it was before that callback (armed), whether its frame was a
\*   pinch-down (down), and, for a placement, the preview position it passed on,
\*   the pending kind, the store and the clock reading before it. clicked: the
\*   data-create-type of the element the last step, a run of the gesture effect
\*   in MENU mode on a pinching frame, found under the cursor. restarted: the
\*   last step, a run of the gesture effect, replaced a running hold by the
\*   hold of another gesture.
NoPlacing ==
  [released |-> TRUE, event |-> "", armed |-> TRUE, down |-> FALSE, preview |-> <<0, 0, 0>>,
   kind |-> "", store |-> <<>>, at |-> 0, clicked |-> "", restarted |-> FALSE]
\* hub: the pinches made in HUB mode. last: the clock reading of the last tab
\*   toggle (-1 for none). since, until: the readings at the pinch-down of the
\*   last pinch and at its last frame, which is the frame of its release once it
\*   is over. toggles: the tab toggles made during it (2 for two or more). plain:
\*   no run of the gesture effect found a tab affordance under it. gated: the
\*   cooldown was running when its first frame was delivered.
NoHub ==
  [last |-> -1, since |-> -1, until |-> -1, toggles |-> 0, plain |-> TRUE, gated |-> FALSE,
   over |-> FALSE]
HubFrame(h, m, cooldown, old, hd, t) ==
  IF m # "HUB" THEN h
  ELSE IF hd # Null /\ hd.isPinching
       THEN IF old = Null \/ ~old.isPinching
            THEN [h EXCEPT !.since = t, !.until = t, !.toggles = 0, !.plain = TRUE,
                           !.gated = cooldown, !.over = FALSE]
            ELSE IF h.since >= 0 /\ ~h.over THEN [h EXCEPT !.until = t] ELSE h
       ELSE IF h.since >= 0 /\ ~h.over THEN [h EXCEPT !.until = t, !.over = TRUE] ELSE h
HubAfter(h, c, r, element, t) ==
  IF c.mode # "HUB" THEN h
  ELSE LET toggled == r.hubPinchCooldown /\ ~c.hubPinchCooldown
       IN [h EXCEPT !.last = IF toggled THEN t ELSE @,
                    !.toggles = IF toggled THEN Min(@ + 1, 2) ELSE @,
                    !.plain = @ /\ ~(c.handData # Null /\ c.handData.isPinching
                                      /\ element # Null /\ element.hubTab # "")]

InitialHist(picks, ghostSteps) ==
  [picksLeft |-> picks, ghostStepsLeft |-> ghostSteps, fired |-> "", firedStart |-> -1,
   updated |-> <<>>,
   stalled |-> FALSE, streak |-> NoStreak, sess |-> NoSession, plc |-> NoPlacing,
   probe |-> Null, held |-> FALSE, hub |-> NoHub, frames |-> -1, raw |-> Null]

\* The record once the step after the frame callback is taken.
EventOver(pl) == [NoPlacing EXCEPT !.released = pl.released]

PlacingAfter(pl, r, c, prev) ==
  LET processed == c.handData # Null /\ c.mode \notin {"MENU", "RADIAL", "HUB", "SETTINGS"}
      pinching == processed /\ c.handData.isPinching
      started == r.placed \/ r.picked
  IN [pl EXCEPT !.event = IF r.placed THEN "place" ELSE IF r.picked THEN "pick" ELSE "",
                !.armed = started => pl.released,
                !.down = started /\ pinching /\ (prev = Null \/ ~prev.gestureWasPinch),
                !.released = @ \/ (processed /\ ~pinching),
                !.preview = IF r.placed THEN r.ghostPos ELSE <<0, 0, 0>>,
                !.kind = IF r.placed THEN c.pendingObjectType ELSE "",
                !.store = IF r.placed THEN c.objects ELSE <<>>,
                !.at = IF r.placed THEN now ELSE 0]

\* The record of a closed session is dropped when the next display frame starts.
SessionKept(ss, d) == IF d.isDragging THEN ss ELSE NoSession

FramesAfter(n, old, new) ==
  IF n < 0 THEN n
  ELSE IF new = Null THEN 0
  ELSE IF old # Null /\ old.gesture = new.gesture THEN Min(n + 1, MaxFrames)
  ELSE 1

StreakAfter(st, hd, fired, t) ==
  IF hd = Null THEN NoStreak
  ELSE LET s1 == IF st.gesture = hd.gesture THEN st
                 ELSE [gesture |-> hd.gesture, since |-> t, fires |-> 0, lastFire |-> 0]
       IN IF fired # "" THEN [s1 EXCEPT !.fires = @ + 1, !.lastFire = t] ELSE s1

\* ------------------------------------------------------------------ actions
\* The program's state after construction.
InitState ==
  /\ now = 0
  /\ turn = "producer"
  /\ dirty = FALSE
  /\ handData = Null
  /\ objects = INITIAL_OBJECTS
  /\ selectedId = NoId
  /\ mode = "VIEW"
  /\ transformMode = "translate"
  /\ pendingObjectType = ""
  /\ holdStart = Null
  /\ activeProgress = Null
  /\ activeRadialSector = ""
  /\ hubTab = "guide"
  /\ hubPinchCooldown = FALSE
  /\ hubTimer = -1
  /\ gestureSettings = [g \in {"POINTING", "PINCH", "VICTORY", "THUMBS_UP", "THUMB_DOWN",
                               "THREE_FINGERS"} |-> TRUE]
  /\ prevHandPos = Null
  /\ waitingForPinchRelease = FALSE
  /\ dragRef = InitialDrag
  /\ ghostPos = Vec(0, 0, 0)
  /\ meshes = [id \in ObjectIds(INITIAL_OBJECTS) |-> NewMesh(ObjectById(INITIAL_OBJECTS, id), NoId)]

InitWith(picks, ghostSteps) == InitState /\ hist = InitialHist(picks, ghostSteps)

\* The program after construction; no frame callback runs in PLACING mode.
Init == InitWith(MaxPicks, 0)

\* Date.now() advances (between display frames).
Tick ==
  /\ turn = "producer" /\ ~dirty
  /\ now < MaxTicks * TickMs
  /\ now' = now + TickMs
  /\ hist' = [hist EXCEPT !.fired = "", !.firedStart = -1, !.updated = <<>>,
                           !.plc = EventOver(@)]
  /\ UNCHANGED <<turn, dirty, appVars, imVars>>

\* predictWebcam detects a hand (or none) and calls onHandUpdate with a frame
\* of the given set.
HandUpdateFrom(frames) ==
  /\ turn = "producer"
  /\ \E data \in frames :
       /\ handData' = FilterGesture(data, gestureSettings)
       /\ hist' = [hist EXCEPT !.fired = "", !.firedStart = -1, !.updated = <<>>,
                       !.stalled = FALSE, !.plc = EventOver(@),
                       !.sess = SessionKept(@, dragRef),
                       !.held = (mode = "RADIAL" /\ handData # Null /\ handData.isPinching),
                       !.hub = HubFrame(@, mode, hubPinchCooldown, handData, handData', now),
                       !.frames = FramesAfter(@, handData, handData'),
                       !.raw = data]
  /\ turn' = "consumer"
  /\ dirty' = TRUE
  /\ UNCHANGED <<now, objects, selectedId, mode, transformMode, pendingObjectType, holdStart,
                 activeProgress, activeRadialSector, hubTab, hubPinchCooldown, gestureSettings,
                 hubTimer, imVars>>

HandUpdate == HandUpdateFrom(HandFrames \cup {Null})

\* predictWebcam delivers nothing this display frame (video.currentTime is 0,
\* no canvas context, or the loop has not started).
Stall ==
  /\ turn = "producer" /\ ~dirty
  /\ turn' = "consumer"
  /\ hist' = [hist EXCEPT !.fired = "", !.firedStart = -1, !.updated = <<>>,
                           !.stalled = TRUE, !.plc = EventOver(@),
                           !.sess = SessionKept(@, dragRef)]
  /\ UNCHANGED <<now, dirty, appVars, imVars>>

\* React runs the gesture effect.
GestureEffect ==
  /\ dirty
  /\ \E element \in ElementsAt(mode) :
       LET r == GestureLogic(AppState, now, element)
       IN /\ objects' = r.objects
          /\ selectedId' = r.selectedId
          /\ mode' = r.mode
          /\ transformMode' = r.transformMode
          /\ pendingObjectType' = r.pendingObjectType
          /\ holdStart' = r.holdStart
          /\ activeProgress' = r.activeProgress
          /\ activeRadialSector' = r.activeRadialSector
          /\ hubTab' = r.hubTab
          /\ hubPinchCooldown' = r.hubPinchCooldown
          /\ hubTimer' = r.hubTimer
          /\ dirty' = (r.mode # mode \/ r.holdStart # holdStart \/ r.selectedId # selectedId
                       \/ r.activeRadialSector # activeRadialSector
                       \/ r.hubPinchCooldown # hubPinchCooldown)
          /\ meshes' = Reconcile(meshes, objects, selectedId, r.objects, r.selectedId)
          /\ waitingForPinchRelease' = WaitAfterRender(waitingForPinchRelease, mode, r.mode)
          /\ hist' = [hist EXCEPT !.fired = r.fired, !.firedStart = r.firedStart,
                        !.updated = <<>>,
                        !.streak = StreakAfter(@, handData, r.fired, now),
                        !.sess.cancelled = @ \/ (r.fired = "CANCEL" /\ dragRef.isDragging
                                                  /\ handData.isPinching),
                        !.held = @ /\ r.mode = "RADIAL",
                        !.hub = HubAfter(@, AppState, r, element, now),
                        !.plc = [EventOver(@) EXCEPT
                                   !.released = @ /\ ~(r.mode = "PLACING" /\ mode # "PLACING"),
                                   !.clicked = IF mode = "MENU" /\ handData # Null
                                                  /\ handData.isPinching /\ element # Null
                                               THEN element.createType ELSE "",
                                   !.restarted = /\ holdStart # Null /\ r.holdStart # Null
                                                 /\ r.holdStart.type # holdStart.type]]
  /\ UNCHANGED <<now, turn, handData, gestureSettings, prevHandPos, dragRef, ghostPos>>

\* The ray cast of a pinch-down in EDIT or VIEW: nothing, or an object's mesh.
\* The objects are under the cursor when it is at the centre of the view.
HitDistances == {2000}
HitCursors == {<<0, 0>>}
Hits ==
  IF handData # Null /\ mode \in {"EDIT", "VIEW"} /\ handData.isPinching
     /\ <<handData.x, handData.y>> \in HitCursors
     /\ ~waitingForPinchRelease /\ hist.picksLeft > 0
     /\ (prevHandPos = Null \/ ~prevHandPos.gestureWasPinch)
  THEN {Null} \cup {[id |-> id, distance |-> d] : id \in DOMAIN meshes, d \in HitDistances}
  ELSE {Null}

SessionAfter(ss, r, c) ==
  LET s1 == IF r.picked
            THEN [NoSession EXCEPT !.id = r.dragRef.targetId, !.store = c.objects,
                                   !.tmode = c.transformMode,
                                   !.pickCursor = <<c.handData.x, c.handData.y>>,
                                   !.lastCursor = <<c.handData.x, c.handData.y>>]
            ELSE ss
      s2 == IF c.handData # Null /\ c.handData.isPinching /\ r.dragRef.isDragging
            THEN [s1 EXCEPT !.lastCursor = <<c.handData.x, c.handData.y>>]
            ELSE s1
      s3 == [s2 EXCEPT !.written = @ \o r.updated]
  IN IF dragRef.isDragging /\ ~r.dragRef.isDragging
     THEN [s3 EXCEPT !.endedBy = IF c.handData = Null THEN "null"
                                 ELSE IF c.mode \in {"MENU", "RADIAL", "HUB", "SETTINGS"}
                                      THEN "mode" ELSE "release"]
     ELSE s3

\* The useFrame callback of the InteractionManager.
UseFrame ==
  /\ turn = "consumer" /\ ~dirty
  /\ mode = "PLACING" => hist.ghostStepsLeft > 0
  /\ \E hit \in Hits :
       LET c == AppState
           im == [prevHandPos |-> prevHandPos,
                  waitingForPinchRelease |-> waitingForPinchRelease,
                  dragRef |-> dragRef, ghostPos |-> ghostPos, meshes |-> meshes]
           r == FrameLogic(c, im, hit, now)
       IN /\ objects' = r.objects
          /\ selectedId' = r.selectedId
          /\ mode' = r.mode
          /\ pendingObjectType' = r.pendingObjectType
          /\ prevHandPos' = r.prevHandPos
          /\ dragRef' = r.dragRef
          /\ ghostPos' = r.ghostPos
          /\ meshes' = Reconcile(r.meshes, objects, selectedId, r.objects, r.selectedId)
          /\ waitingForPinchRelease' = WaitAfterRender(r.waitingForPinchRelease, mode, r.mode)
          /\ dirty' = (r.mode # mode \/ r.selectedId # selectedId)
          /\ hist' = [hist EXCEPT !.fired = "", !.firedStart = -1, !.updated = r.updated,
                        !.picksLeft = IF r.picked THEN @ - 1 ELSE @,
                        !.ghostStepsLeft = IF mode = "PLACING" THEN @ - 1 ELSE @,
                        !.sess = SessionAfter(@, r, c),
                        !.plc = PlacingAfter(@, r, c, prevHandPos)]
  /\ turn' = "producer"
  /\ UNCHANGED <<now, handData, transformMode, holdStart, activeProgress, activeRadialSector,
                 hubTab, hubPinchCooldown, gestureSettings, hubTimer>>

\* The scenes a project file can hold: an empty one, and one without cube-1
\* that holds a sphere moved, turned and enlarged.
ImportFiles ==
  {<<>>,
   <<[id |-> "sphere-1", type |-> "sphere", position |-> Vec(FP, 0, 0), rotation |-> Vec(0, 785, 0),
      scale |-> Vec(2 * FP, 2 * FP, 2 * FP), color |-> ColorWhite]>>}

\* reader.onload of handleFileChange with a valid project file: the store is
\* replaced, the selection cleared and the mode set to VIEW.
ImportScene ==
  /\ ~dirty
  /\ \E json \in ImportFiles :
       /\ objects' = json
       /\ meshes' = Reconcile(meshes, objects, selectedId, json, NoId)
       /\ hist' = [hist EXCEPT !.fired = "", !.firedStart = -1, !.updated = <<>>,
                       !.plc = EventOver(@),
                       !.sess.stale = (dragRef.isDragging
                                       /\ dragRef.targetId \notin ObjectIds(json))]
  /\ selectedId' = NoId
  /\ mode' = "VIEW"
  /\ waitingForPinchRelease' = WaitAfterRender(waitingForPinchRelease, mode, "VIEW")
  /\ dirty' = (mode # "VIEW" \/ selectedId # NoId)
  /\ UNCHANGED <<now, turn, handData, transformMode, pendingObjectType, holdStart,
                 activeProgress, activeRadialSector, hubTab, hubPinchCooldown, gestureSettings,
                 hubTimer, prevHandPos, dragRef, ghostPos>>

\* A click on one of the given toggles of the control panel, which is rendered
\* in SETTINGS mode.
ToggleGestureOf(keys) ==
  /\ mode = "SETTINGS" /\ ~dirty
  /\ \E key \in keys :
       gestureSettings' = [gestureSettings EXCEPT ![key] = ~@]
  /\ hist' = [hist EXCEPT !.fired = "", !.firedStart = -1, !.updated = <<>>,
                           !.plc = EventOver(@)]
  /\ UNCHANGED <<now, turn, dirty, handData, objects, selectedId, mode, transformMode,
                 pendingObjectType, holdStart, activeProgress, activeRadialSector, hubTab,
                 hubPinchCooldown, hubTimer, imVars>>

ToggleGesture == ToggleGestureOf(DOMAIN gestureSettings)

\* A click on the close button of the control panel.
CloseSettings ==
  /\ mode = "SETTINGS" /\ ~dirty
  /\ mode' = "VIEW"
  /\ dirty' = TRUE
  /\ waitingForPinchRelease' = WaitAfterRender(waitingForPinchRelease, mode, "VIEW")
  /\ hist' = [hist EXCEPT !.fired = "", !.firedStart = -1, !.updated = <<>>,
                           !.plc = EventOver(@)]
  /\ UNCHANGED <<now, turn, handData, objects, selectedId, transformMode, pendingObjectType,
                 holdStart, activeProgress, activeRadialSector, hubTab, hubPinchCooldown,
                 gestureSettings, hubTimer, prevHandPos, dragRef, ghostPos, meshes>>

\* A click on "Open Help Center" in the control panel.
OpenHub ==
  /\ mode = "SETTINGS" /\ ~dirty
  /\ mode' = "HUB"
  /\ dirty' = TRUE
  /\ waitingForPinchRelease' = WaitAfterRender(waitingForPinchRelease, mode, "HUB")
  /\ hist' = [hist EXCEPT !.fired = "", !.firedStart = -1, !.updated = <<>>,
                           !.plc = EventOver(@)]
  /\ UNCHANGED <<now, turn, handData, objects, selectedId, transformMode, pendingObjectType,
                 holdStart, activeProgress, activeRadialSector, hubTab, hubPinchCooldown,
                 gestureSettings, hubTimer, prevHandPos, dragRef, ghostPos, meshes>>

\* The timeout set by the tab toggle runs, HUB_COOLDOWN ms after it or later.
CooldownTimeout ==
  /\ hubTimer >= 0 /\ now >= hubTimer /\ ~dirty
  /\ hubPinchCooldown' = FALSE
  /\ hubTimer' = -1
  /\ dirty' = hubPinchCooldown
  /\ hist' = [hist EXCEPT !.fired = "", !.firedStart = -1, !.updated = <<>>,
                           !.plc = EventOver(@)]
  /\ UNCHANGED <<now, turn, handData, objects, selectedId, mode, transformMode,
                 pendingObjectType, holdStart, activeProgress, activeRadialSector, hubTab,
                 gestureSettings, imVars>>

Next == Tick \/ HandUpdate \/ Stall \/ GestureEffect \/ UseFrame

Spec == Init /\ [][Next]_vars

\* The program with MaxGhostSteps frame callbacks in PLACING mode, on the frames
\* of a fist, a Victory and a Shaka hand at two cursor positions.
PlacingLandmarks ==
  {lm \in Landmarks : /\ lm.fingers \in {Fingers(FALSE, FALSE, FALSE, FALSE),
                                          Fingers(TRUE, TRUE, FALSE, FALSE),
                                          Fingers(FALSE, FALSE, FALSE, TRUE)}
                      /\ lm.indexTip \in {<<500, 500>>, <<500, 0>>}}
PlacingFrames == {HandDataOf(lm) : lm \in PlacingLandmarks} \cup {Null}
HandUpdatePlacing == HandUpdateFrom(PlacingFrames)
InitPlacing == InitWith(MaxPicks, MaxGhostSteps)
NextPlacing == Tick \/ HandUpdatePlacing \/ Stall \/ GestureEffect \/ UseFrame
SpecPlacing == InitPlacing /\ [][NextPlacing]_vars

\* The program on the frames of a fist, a Victory and a three-finger hand with
\* the cursor at the centre of the view, where the objects are.
HoldLandmarks ==
  {lm \in Landmarks : /\ lm.fingers \in {Fingers(FALSE, FALSE, FALSE, FALSE),
                                          Fingers(TRUE, TRUE, FALSE, FALSE),
                                          Fingers(TRUE, TRUE, TRUE, FALSE)}
                      /\ lm.indexTip = <<500, 500>>}
HoldFrames == {HandDataOf(lm) : lm \in HoldLandmarks} \cup {Null}
HandUpdateHold == HandUpdateFrom(HoldFrames)
InitHold == InitWith(MaxPicks, MaxGhostSteps)
NextHold == Tick \/ HandUpdateHold \/ Stall \/ GestureEffect \/ UseFrame
SpecHold == InitHold /\ [][NextHold]_vars

\* The program on the frames of a fist, a Victory, a three-finger and a Rock
\* hand with the cursor at the centre of the view, with the Help Center button
\* of the settings panel.
RockLandmarks ==
  {lm \in Landmarks : /\ lm.fingers \in {Fingers(FALSE, FALSE, FALSE, FALSE),
                                          Fingers(TRUE, TRUE, FALSE, FALSE),
                                          Fingers(TRUE, TRUE, TRUE, FALSE),
                                          Fingers(TRUE, FALSE, FALSE, TRUE)}
                      /\ lm.indexTip = <<500, 500>>}
RockFrames == {HandDataOf(lm) : lm \in RockLandmarks}
HandUpdateRock == HandUpdateFrom(RockFrames)
InitRock == InitWith(MaxPicks, MaxGhostSteps)
NextRock == Tick \/ HandUpdateRock \/ GestureEffect \/ UseFrame \/ OpenHub \/ CooldownTimeout
SpecRock == InitRock /\ [][NextRock]_vars

\* The same frames, counted.
InitFrames == InitState /\ hist = [InitialHist(MaxPicks, MaxGhostSteps) EXCEPT !.frames = 0]
SpecFrames == InitFrames /\ [][NextRock]_vars

\* The classifier on one detection: every combination of the four extension
\* tests, with the thumb distances and the thumb direction on both sides of
\* their thresholds.
AllFingerShapes == {Fingers(i, m, r, p) : i \in BOOLEAN, m \in BOOLEAN, r \in BOOLEAN, p \in BOOLEAN}
ProbeThumbDists == {30, 50, 51, 80}
ProbeThumbDeltaYs == {-10, 0, 10}
ProbePinchDists == {0, 30, 49, 50, 80}
ProbeLandmarks ==
  {[fingers |-> f, thumbToIndexPip |-> d, thumbDeltaY |-> y, pinchDist |-> p,
    indexTip |-> <<500, 500>>] :
     f \in AllFingerShapes, d \in ProbeThumbDists, y \in ProbeThumbDeltaYs,
     p \in ProbePinchDists}
InitClassify ==
  InitState /\ \E lm \in ProbeLandmarks : hist = [InitialHist(0, 0) EXCEPT !.probe = lm]
Detect == hist.probe \in ProbeLandmarks /\ HandUpdateFrom({HandDataOf(hist.probe)})
NextClassify == Detect
SpecClassify == InitClassify /\ [][NextClassify]_vars

\* A state between two display frames in which no hold is running, no sector is
\* active, nothing is pending and the settings are the initial ones.
Quiescent(t, hd, m, objs, sel, tm, drag, ghost, ms) ==
  /\ now = t
  /\ turn = "producer"
  /\ dirty = FALSE
  /\ handData = hd
  /\ objects = objs
  /\ selectedId = sel
  /\ mode = m
  /\ transformMode = tm
  /\ pendingObjectType = ""
  /\ holdStart = Null
  /\ activeProgress = Null
  /\ activeRadialSector = ""
  /\ hubTab = "guide"
  /\ hubPinchCooldown = FALSE
  /\ hubTimer = -1
  /\ gestureSettings = [g \in {"POINTING", "PINCH", "VICTORY", "THUMBS_UP", "THUMB_DOWN",
                               "THREE_FINGERS"} |-> TRUE]
  /\ prevHandPos = PrevOf(hd)
  /\ waitingForPinchRelease = FALSE
  /\ dragRef = drag
  /\ ghostPos = ghost
  /\ meshes = ms

\* The frames of a three-finger hand and of a fist (no gesture), not pinching,
\* with the cursor at the centre of the view.
ThreeFingersFrame ==
  HandDataOf([fingers |-> Fingers(TRUE, TRUE, TRUE, FALSE), thumbToIndexPip |-> 80,
              thumbDeltaY |-> 0, pinchDist |-> 50, indexTip |-> <<500, 500>>])
FistFrame ==
  HandDataOf([fingers |-> Fingers(FALSE, FALSE, FALSE, FALSE), thumbToIndexPip |-> 80,
              thumbDeltaY |-> 0, pinchDist |-> 50, indexTip |-> <<500, 500>>])

\* The store after a sphere was placed at the end of a Victory hold from time 0
\* with the cursor at the centre of the view.
PlacedObjects ==
  Append(INITIAL_OBJECTS,
         [id |-> ObjectId(HOLD_DURATION), type |-> "sphere", position |-> Vec(0, 500, -4880),
          rotation |-> Vec(0, 0, 0), scale |-> Vec(FP, FP, FP), color |-> ColorWhite])

\* The state in which the radial menu has just opened on the placed sphere: a
\* three-finger hold from HOLD_DURATION has completed.
RadialEnteredOnPlaced ==
  Quiescent(2 * HOLD_DURATION, ThreeFingersFrame, "RADIAL", PlacedObjects,
            ObjectId(HOLD_DURATION), "translate", InitialDrag, Vec(0, 500, -4880),
            [id \in ObjectIds(PlacedObjects) |->
               NewMesh(ObjectById(PlacedObjects, id), ObjectId(HOLD_DURATION))])

\* The state in which the radial menu has just opened: cube-1 was picked and
\* released at the centre of the view, and a three-finger hold from time 0 has
\* completed.
RadialEntered ==
  /\ now = HOLD_DURATION
  /\ turn = "producer"
  /\ dirty = FALSE
  /\ handData = HandDataOf([fingers |-> Fingers(TRUE, TRUE, TRUE, FALSE), thumbToIndexPip |-> 80,
                            thumbDeltaY |-> 0, pinchDist |-> 50, indexTip |-> <<500, 500>>])
  /\ objects = INITIAL_OBJECTS
  /\ selectedId = "cube-1"
  /\ mode = "RADIAL"
  /\ transformMode = "translate"
  /\ pendingObjectType = ""
  /\ holdStart = Null
  /\ activeProgress = Null
  /\ activeRadialSector = ""
  /\ hubTab = "guide"
  /\ hubPinchCooldown = FALSE
  /\ hubTimer = -1
  /\ gestureSettings = [g \in {"POINTING", "PINCH", "VICTORY", "THUMBS_UP", "THUMB_DOWN",
                               "THREE_FINGERS"} |-> TRUE]
  /\ prevHandPos = PrevOf(handData)
  /\ waitingForPinchRelease = FALSE
  /\ dragRef = EndDrag(StartDrag(InitialDrag, [id |-> "cube-1", distance |-> 2000],
                                 CursorWorld(0, 0, PLACE_DISTANCE),
                                 [id \in {"cube-1"} |-> NewMesh(INITIAL_OBJECTS[1], NoId)]))
  /\ ghostPos = Vec(0, 0, 0)
  /\ meshes = [id \in {"cube-1"} |-> NewMesh(INITIAL_OBJECTS[1], "cube-1")]

\* The radial chain on one angle: every tenth of a degree atan2 can return.
ProbeAngles == {[deg |-> d] : d \in (-180 * DegFP)..(180 * DegFP)}
InitSector ==
  RadialEntered /\ \E a \in ProbeAngles : hist = [InitialHist(0, 0) EXCEPT !.probe = a]
\* The gesture effect's choice of the sector for a cursor outside the dead zone
\* at the probed angle.
AimRadial ==
  /\ hist.probe \in ProbeAngles /\ turn = "producer" /\ mode = "RADIAL"
  /\ activeRadialSector' = SectorOfClock(ClockDeg(hist.probe.deg))
  /\ turn' = "consumer"
  /\ UNCHANGED <<now, dirty, handData, objects, selectedId, mode, transformMode,
                 pendingObjectType, holdStart, activeProgress, hubTab, hubPinchCooldown,
                 gestureSettings, hubTimer, imVars, hist>>
NextSector == AimRadial
SpecSector == InitSector /\ [][NextSector]_vars

\* The radial menu, open, on the frames of a fist, pinching or not, with the
\* cursor on a grid of 12 px steps up to 60 px around the centre of the view.
RadialTips == {500 + 10 * k : k \in -5..5}
RadialLandmarks ==
  {[fingers |-> Fingers(FALSE, FALSE, FALSE, FALSE), thumbToIndexPip |-> 80, thumbDeltaY |-> 0,
    pinchDist |-> p, indexTip |-> <<a, b>>] :
     p \in PinchDists, a \in RadialTips, b \in RadialTips}
HandUpdateRadial == HandUpdateFrom({HandDataOf(lm) : lm \in RadialLandmarks})
InitRadial == RadialEntered /\ hist = InitialHist(0, 0)
NextRadial == HandUpdateRadial \/ GestureEffect \/ UseFrame
SpecRadial == InitRadial /\ [][NextRadial]_vars

\* The radial menu, open on the placed sphere, on the same frames.
InitRadialPlaced == RadialEnteredOnPlaced /\ hist = InitialHist(0, 0)
SpecRadialPlaced == InitRadialPlaced /\ [][NextRadial]_vars

\* The state in which the control panel is open: cube-1 was picked and released
\* at the centre of the view, a Rock hold from time 0 has completed and a fist
\* has followed.
SettingsEntered ==
  Quiescent(HOLD_DURATION, FistFrame, "SETTINGS", INITIAL_OBJECTS, "cube-1", "translate",
            EndDrag(StartDrag(InitialDrag, [id |-> "cube-1", distance |-> 2000],
                              CursorWorld(0, 0, PLACE_DISTANCE),
                              [id \in {"cube-1"} |-> NewMesh(INITIAL_OBJECTS[1], NoId)])),
            Vec(0, 0, 0), [id \in {"cube-1"} |-> NewMesh(INITIAL_OBJECTS[1], "cube-1")])

\* The control panel, open, while the toggles are clicked and one hand shape is
\* shown: a fist, a pointing, a Victory, a three-finger, a Rock or a Shaka hand,
\* the thumb up or level, pinching or not.
SettingsProbes ==
  {lm \in ProbeLandmarks :
     /\ lm.fingers \in {Fingers(FALSE, FALSE, FALSE, FALSE), Fingers(TRUE, FALSE, FALSE, FALSE),
                        Fingers(TRUE, TRUE, FALSE, FALSE), Fingers(TRUE, TRUE, TRUE, FALSE),
                        Fingers(TRUE, FALSE, FALSE, TRUE), Fingers(FALSE, FALSE, FALSE, TRUE)}
     /\ lm.thumbToIndexPip = 80 /\ lm.thumbDeltaY \in {-10, 0} /\ lm.pinchDist \in {30, 50}}
InitSettings ==
  SettingsEntered /\ \E lm \in SettingsProbes : hist = [InitialHist(0, 0) EXCEPT !.probe = lm]
NextSettings == Tick \/ Detect \/ ToggleGesture \/ GestureEffect \/ UseFrame
SpecSettings == InitSettings /\ [][NextSettings]_vars

\* The control panel, open, with the help center a click away, on the frames
\* of a fist, a Victory and a three-finger hand at the centre of the view.
InitHub == SettingsEntered /\ hist = InitialHist(0, 0)
NextHub == Tick \/ HandUpdateHold \/ GestureEffect \/ UseFrame \/ OpenHub \/ CooldownTimeout
SpecHub == InitHub /\ [][NextHub]_vars

\* The radial menu, open on cube-1, on the frames of a fist, pinching or not,
\* with the cursor on the Scale sector, at the centre of the view and straight
\* above and below it.
ScaleTips == {<<400, 700>>, <<500, 500>>, <<500, 250>>, <<500, 650>>, <<500, 750>>, <<500, 800>>}
ScaleLandmarks ==
  {[fingers |-> Fingers(FALSE, FALSE, FALSE, FALSE), thumbToIndexPip |-> 80, thumbDeltaY |-> 0,
    pinchDist |-> p, indexTip |-> c] : p \in PinchDists, c \in ScaleTips}
HandUpdateScale == HandUpdateFrom({HandDataOf(lm) : lm \in ScaleLandmarks})
InitScale == RadialEntered /\ hist = InitialHist(MaxPicks, 0)
NextScale == HandUpdateScale \/ GestureEffect \/ UseFrame
SpecScale == InitScale /\ [][NextScale]_vars

\* The state in which a sphere is pending for placement: a Victory hold from
\* time 0 opened the menu, the sphere was clicked at the centre of the view and
\* the pinch was released.
PlacingEntered ==
  /\ now = HOLD_DURATION
  /\ turn = "producer"
  /\ dirty = FALSE
  /\ handData = FistFrame
  /\ objects = INITIAL_OBJECTS
  /\ selectedId = NoId
  /\ mode = "PLACING"
  /\ transformMode = "translate"
  /\ pendingObjectType = "sphere"
  /\ holdStart = Null
  /\ activeProgress = Null
  /\ activeRadialSector = ""
  /\ hubTab = "guide"
  /\ hubPinchCooldown = FALSE
  /\ hubTimer = -1
  /\ gestureSettings = [g \in {"POINTING", "PINCH", "VICTORY", "THUMBS_UP", "THUMB_DOWN",
                               "THREE_FINGERS"} |-> TRUE]
  /\ prevHandPos = PrevOf(FistFrame)
  /\ waitingForPinchRelease = FALSE
  /\ dragRef = InitialDrag
  /\ ghostPos = Vec(0, 500, -3600)
  /\ meshes = [id \in {"cube-1"} |-> NewMesh(INITIAL_OBJECTS[1], NoId)]

\* The preview while a sphere is pending, on the frames of a fist, pinching or
\* not, with the cursor at the middle of the view's width and at six heights.
GhostTipYs == {0, 350, 450, 500, 650, 1000}
GhostLandmarks ==
  {[fingers |-> Fingers(FALSE, FALSE, FALSE, FALSE), thumbToIndexPip |-> 80, thumbDeltaY |-> 0,
    pinchDist |-> p, indexTip |-> <<500, b>>] : p \in PinchDists, b \in GhostTipYs}
HandUpdateGhost == HandUpdateFrom({HandDataOf(lm) : lm \in GhostLandmarks})
InitGhost == PlacingEntered /\ hist = InitialHist(0, MaxPreviewSteps)
NextGhost == HandUpdateGhost \/ GestureEffect \/ UseFrame
SpecGhost == InitGhost /\ [][NextGhost]_vars

\* The state in which cube-1, stored with some colour, is about to be picked in
\* color mode: it was picked and released at the centre of the view, the Color
\* sector of the radial menu was pinched and a Shaka hold has cleared the
\* selection.
ProbeHues == {0, 250, 500, 664, 999}
ColorScene(h) == <<[INITIAL_OBJECTS[1] EXCEPT !.color = [h |-> h, s |-> 840, l |-> 667]]>>
ColorEntered(h) ==
  Quiescent(2 * HOLD_DURATION, FistFrame, "VIEW", ColorScene(h), NoId, "color",
            EndDrag(StartDrag(InitialDrag, [id |-> "cube-1", distance |-> 2000],
                              CursorWorld(0, 0, PLACE_DISTANCE),
                              [id \in {"cube-1"} |-> NewMesh(ColorScene(h)[1], NoId)])),
            Vec(0, 0, 0), [id \in {"cube-1"} |-> NewMesh(ColorScene(h)[1], NoId)])

\* Color drags of cube-1 on the frames of a fist, pinching or not, with the
\* cursor at the centre of the view and left and right of it.
ColorTipXs == {0, 250, 500, 750, 1000}
ColorLandmarks ==
  {[fingers |-> Fingers(FALSE, FALSE, FALSE, FALSE), thumbToIndexPip |-> 80, thumbDeltaY |-> 0,
    pinchDist |-> p, indexTip |-> <<a, 500>>] : p \in PinchDists, a \in ColorTipXs}
ColorFrames == {HandDataOf(lm) : lm \in ColorLandmarks}
HandUpdateColor == HandUpdateFrom(ColorFrames)
InitColor == (\E h \in ProbeHues : ColorEntered(h)) /\ hist = InitialHist(MaxColorPicks, 0)
NextColor == HandUpdateColor \/ GestureEffect \/ UseFrame
SpecColor == InitColor /\ [][NextColor]_vars

\* The program while a project file may be imported at any time; the clock
\* stands still, so no hold completes.
NextImport == HandUpdate \/ Stall \/ GestureEffect \/ UseFrame \/ ImportScene
SpecImport == Init /\ [][NextImport]_vars

\* The program from the open radial menu or with a sphere pending, while a
\* project file may be imported, on the frames of a fist, a Victory, a
\* three-finger and a Shaka hand at the centre of the view and of a pinching
\* fist on the Delete sector.
StoreLandmarks ==
  {lm \in Landmarks : /\ lm.indexTip = <<500, 500>>
                      /\ lm.fingers # Fingers(TRUE, FALSE, FALSE, TRUE)
                      /\ lm.pinchDist < PINCH_THRESHOLD
                           => lm.fingers = Fingers(FALSE, FALSE, FALSE, FALSE)}
    \cup {lm \in Landmarks : /\ lm.indexTip = <<1000, 500>> /\ lm.pinchDist < PINCH_THRESHOLD
                            /\ lm.fingers = Fingers(FALSE, FALSE, FALSE, FALSE)}
StoreFrames == {HandDataOf(lm) : lm \in StoreLandmarks}
InitStore == (RadialEntered \/ PlacingEntered) /\ hist = InitialHist(MaxPicks, MaxGhostSteps)
NextStore == Tick \/ HandUpdateFrom(StoreFrames) \/ GestureEffect \/ UseFrame \/ ImportScene
SpecStore == InitStore /\ [][NextStore]_vars

\* The control panel, open on the selected cube-1, with the Pinch toggle and
\* the close button a click away, on the frames of a fist at the centre and
\* the right edge of the view and of a Victory and a three-finger hand.
PinchOffLandmarks ==
  {lm \in Landmarks : /\ lm.indexTip = <<500, 500>>
                      /\ lm.fingers \in {Fingers(FALSE, FALSE, FALSE, FALSE),
                                          Fingers(TRUE, TRUE, FALSE, FALSE),
                                          Fingers(TRUE, TRUE, TRUE, FALSE)}}
    \cup {lm \in Landmarks : /\ lm.indexTip = <<1000, 500>>
                            /\ lm.fingers = Fingers(FALSE, FALSE, FALSE, FALSE)}
PinchOffFrames == {HandDataOf(lm) : lm \in PinchOffLandmarks}
InitPinchOff == SettingsEntered /\ hist = InitialHist(MaxPicks, MaxGhostSteps)
NextPinchOff ==
  \/ Tick \/ HandUpdateFrom(PinchOffFrames) \/ GestureEffect \/ UseFrame
  \/ ToggleGestureOf({"PINCH"}) \/ CloseSettings
SpecPinchOff == InitPinchOff /\ [][NextPinchOff]_vars

\* The program on one frame of every tag the classifier gives, pinching or not
\* where the tag allows it, with the cursor at the centre of the view.
TagLandmarks ==
  {[fingers |-> f, thumbToIndexPip |-> d, thumbDeltaY |-> y, pinchDist |-> p,
    indexTip |-> <<500, 500>>] :
     f \in FingerShapes \cup {Fingers(TRUE, FALSE, FALSE, FALSE)}, d \in ThumbDists,
     y \in ProbeThumbDeltaYs, p \in PinchDists}
TagFrames == {HandDataOf(lm) : lm \in TagLandmarks}
InitTags == InitWith(MaxPicks, 0)
NextTags == Tick \/ HandUpdateFrom(TagFrames) \/ GestureEffect \/ UseFrame
SpecTags == InitTags /\ [][NextTags]_vars

\* ------------------------------------------------------------------- claims
\* The gesture a hold transition is triggered by.
TriggerGesture(action) ==
  CASE action = "CANCEL" -> "SHAKA"
    [] action = "SETTINGS" -> "ROCK"
    [] action = "MENU" -> "VICTORY"
    [] action = "RADIAL" -> "THREE_FINGERS"
    [] OTHER -> ""

\* C1: whenever a Shaka hold reaches HOLD_DURATION, the run of the gesture
\* effect that fires it leaves the mode VIEW, the selection empty and the pending
\* object kind empty, whatever else the same frame triggers.
C1_CancelPreempts ==
  hist.fired = "CANCEL" => mode = "VIEW" /\ selectedId = NoId /\ pendingObjectType = ""

\* C2: a hold transition fires only on a frame of its trigger gesture, when that
\* gesture has been the gesture of every processed frame since the hold started
\* and at least HOLD_DURATION ms have passed since that start; so a hold
\* sustained for less never makes its transition.
C2_HoldNeedsSustain ==
  hist.fired # "" =>
    /\ handData # Null
    /\ handData.gesture = TriggerGesture(hist.fired)
    /\ hist.streak.gesture = handData.gesture
    /\ hist.streak.since <= hist.firedStart
    /\ now - hist.firedStart >= HOLD_DURATION

\* C2 witness: the Victory hold has just fired and opened the menu.
C2_Witness == hist.fired = "MENU" /\ mode = "MENU" /\ now - hist.firedStart >= HOLD_DURATION

\* C3: while one gesture is sustained without interruption, however long, its
\* hold transition fires at most once.
C3_FiresOnce == hist.streak.fires <= 1

\* C4: a drag session during which a Shaka hold completed never writes the store.
C4_CancelAbandonsDrag == hist.sess.cancelled => hist.sess.written = <<>>

\* C5: after a null hand frame was processed while a drag session was open, the
\* session is still there: active, with the same target.
C5_HandLostKeepsSession ==
  (hist.sess.id # NoId /\ hist.sess.endedBy \in {"", "null"}
     /\ handData = Null /\ turn = "producer" /\ ~dirty)
  => dragRef.isDragging /\ dragRef.targetId = hist.sess.id

\* C6: after a display frame in which the producer delivered nothing, the hold
\* state and the progress are cleared, as after a null frame.
C6_StallResetsHold ==
  (hist.stalled /\ turn = "producer" /\ ~dirty) => holdStart = Null /\ activeProgress = Null

\* The world-space move of the cursor, at the pick depth, over the session ss.
SessionDelta(ss, d) ==
  VecSub(CursorWorld(ss.lastCursor[1], ss.lastCursor[2], d.distanceToCamera),
         CursorWorld(ss.pickCursor[1], ss.pickCursor[2], d.distanceToCamera))

\* C7: after the pinch-up of a drag in translate mode the store holds, for the
\* dragged object, its position at the pick plus the cursor's world-space move at
\* the pick depth.
C7_TranslateRoundTrip ==
  (hist.sess.endedBy = "release" /\ hist.sess.tmode = "translate"
     /\ hist.sess.id \in ObjectIds(objects))
  => ObjectById(objects, hist.sess.id).position
       = VecAdd(ObjectById(hist.sess.store, hist.sess.id).position,
                SessionDelta(hist.sess, dragRef))

\* C8: a drag session issues at most one store update; the frame callback in
\* which the pinch is released issues exactly one, keyed by the session's target,
\* and leaves the session inactive with no target; a store update is issued by
\* no other frame callback.
C8_CommitOnce ==
  /\ Len(hist.sess.written) <= 1
  /\ hist.sess.endedBy = "release" =>
        hist.sess.written = <<hist.sess.id>> /\ ~dragRef.isDragging /\ dragRef.targetId = NoId
  /\ hist.sess.written # <<>> => hist.sess.endedBy = "release"
  /\ hist.updated # <<>> => hist.sess.endedBy = "release" /\ hist.updated = hist.sess.written

\* C8 witness: the frame callback of a pinch release has just committed a session.
C8_Witness ==
  hist.sess.endedBy = "release" /\ hist.updated = <<hist.sess.id>> /\ ~dragRef.isDragging

\* C9: while a drag session is active the store is as it was at the pick.
C9_NoStoreWriteWhileDragging == dragRef.isDragging => objects = hist.sess.store

\* C9 witness: a session is active, the pinch is held and the dragged mesh has
\* been moved away from its pose at the pick.
C9_Witness ==
  /\ dragRef.isDragging /\ handData # Null /\ handData.isPinching
  /\ dragRef.targetId \in DOMAIN meshes
  /\ meshes[dragRef.targetId].position # dragRef.startObjPos

\* A drag session is active only in VIEW or EDIT mode: no hold transition out of
\* these modes fires while a session is active (C10 is about such a transition).
SessionOnlyInViewOrEdit == dragRef.isDragging => mode \in {"VIEW", "EDIT"}

\* C11: in a drag session whose target id names no object of the store (it was
\* removed mid-drag), a frame callback changes neither the store nor a mesh and issues no store update,
\* and the frame callback of the pinch release leaves the session inactive with
\* no target.
C11_StaleTarget ==
  [][(dragRef.isDragging /\ dragRef.targetId \notin ObjectIds(objects)
        /\ turn = "consumer" /\ turn' = "producer")
       => /\ objects' = objects /\ meshes' = meshes /\ hist'.updated = <<>>
          /\ (handData # Null /\ ~handData.isPinching)
               => ~dragRef'.isDragging /\ dragRef'.targetId = NoId]_vars

\* C11 witness: a session whose target was removed has been ended by the pinch
\* release, with no store update.
C11_Witness ==
  /\ hist.sess.stale /\ hist.sess.endedBy = "release" /\ hist.sess.written = <<>>
  /\ hist.sess.id \notin ObjectIds(objects) /\ ~dragRef.isDragging

PlacingPinchDown ==
  /\ turn = "consumer" /\ ~dirty /\ mode = "PLACING" /\ ~waitingForPinchRelease
  /\ handData # Null /\ handData.isPinching
  /\ (prevHandPos = Null \/ ~prevHandPos.gestureWasPinch)

\* C13: the frame callback of a pinch-down in PLACING mode appends to the store
\* one object, of the pending kind, with a new id, at the preview position (the
\* ghost's position in that callback), unrotated, unscaled and white; it leaves
\* the objects stored before as they were, selects the new object, sets the mode
\* to EDIT and clears the pending kind.
C13_PlaceCreatesOne ==
  [][(PlacingPinchDown /\ turn' = "producer")
       => /\ pendingObjectType \in ObjectTypes
          /\ ObjectId(now) \notin ObjectIds(objects)
          /\ objects' = Append(objects,
                               [id |-> ObjectId(now), type |-> pendingObjectType,
                                position |-> ghostPos', rotation |-> Vec(0, 0, 0),
                                scale |-> Vec(FP, FP, FP), color |-> ColorWhite])
          /\ selectedId' = ObjectId(now)
          /\ mode' = "EDIT"
          /\ pendingObjectType' = ""]_vars

\* C13 witness: a sphere has just been placed at the preview position, after
\* the cube, and is selected.
C13_Witness ==
  /\ hist.plc.event = "place" /\ hist.plc.kind = "sphere"
  /\ Len(objects) = Len(hist.plc.store) + 1
  /\ objects[Len(objects)].type = "sphere" /\ objects[Len(objects)].position = ghostPos
  /\ ghostPos # Vec(0, 0, 0)
  /\ selectedId = objects[Len(objects)].id /\ pendingObjectType = ""

\* The gesture effect is about to run in VIEW mode on a Victory frame whose
\* hold started HOLD_DURATION ms ago or earlier.
VictoryHeld ==
  /\ dirty /\ mode = "VIEW" /\ handData # Null /\ handData.gesture = "VICTORY"
  /\ holdStart # Null /\ holdStart.type = "VICTORY" /\ now - holdStart.time >= HOLD_DURATION

\* C14: every step of the scenario has one outcome. The run of the gesture
\* effect on a Victory frame held for HOLD_DURATION in VIEW sets the mode to
\* MENU; a run that finds the sphere affordance under a pinch in MENU sets the
\* pending kind to sphere and the mode to PLACING; the frame callback of a
\* pinch-down in PLACING, after the release, with sphere pending, leaves a
\* sphere stored at the preview position, selected, with the mode EDIT.
C14_EndToEnd ==
  [][/\ (VictoryHeld /\ turn' = turn) => mode' = "MENU"
     /\ hist'.plc.clicked = "sphere" => mode' = "PLACING" /\ pendingObjectType' = "sphere"
     /\ (PlacingPinchDown /\ pendingObjectType = "sphere" /\ turn' = "producer")
          => /\ mode' = "EDIT" /\ selectedId' = ObjectId(now)
             /\ selectedId' \in ObjectIds(objects')
             /\ ObjectById(objects', selectedId').type = "sphere"
             /\ ObjectById(objects', selectedId').position = ghostPos']_vars

\* C14 witness: the scenario run with the cursor at the centre of the view: the
\* Victory hold from time 0 opened the menu at 1000 ms, the click, the release
\* and the pinch-down followed, and the sphere obj-1000 stands at the preview
\* position (0, 0.5, -4.88), selected, in EDIT mode.
C14_Witness ==
  /\ hist.plc.event = "place" /\ mode = "EDIT" /\ now = HOLD_DURATION
  /\ selectedId = ObjectId(HOLD_DURATION) /\ selectedId \in ObjectIds(objects)
  /\ ObjectById(objects, selectedId).type = "sphere"
  /\ ObjectById(objects, selectedId).position = Vec(0, 500, -4880)

\* The rendered frame is a Victory in MENU or PLACING mode, or a three-finger
\* gesture with no selection or in RADIAL mode.
PreconditionFails ==
  /\ handData # Null
  /\ \/ handData.gesture = "VICTORY" /\ mode \in {"MENU", "PLACING"}
     \/ handData.gesture = "THREE_FINGERS" /\ (selectedId = NoId \/ mode = "RADIAL")

\* C15: while the rendered frame is a Victory in MENU or PLACING mode, or a
\* three-finger gesture with no selection or in RADIAL mode, no step changes the
\* mode, and a run of the gesture effect leaves the hold state and the progress
\* cleared, at every clock reading.
C15_HoldPreconditions ==
  [][PreconditionFails
       => /\ mode' = mode
          /\ (dirty /\ turn' = turn) => holdStart' = Null /\ activeProgress' = Null]_vars

\* C15 witness: PLACING mode, a Victory frame has been processed HOLD_DURATION
\* or more after the previous hold fired, and no hold is running.
C15_Witness ==
  /\ mode = "PLACING" /\ handData # Null /\ handData.gesture = "VICTORY" /\ ~dirty
  /\ turn = "consumer" /\ now >= 2 * HOLD_DURATION /\ holdStart = Null /\ activeProgress = Null

\* The rendered frame is a candidate trigger: a Shaka or a Rock, or a Victory
\* or a three-finger gesture whose precondition holds.
CandidateFrame ==
  /\ handData # Null
  /\ handData.gesture \in {"SHAKA", "ROCK", "VICTORY", "THREE_FINGERS"}
  /\ ~PreconditionFails

\* C16: a run of the gesture effect on a frame that is no candidate trigger (a
\* null frame, a NONE or other gesture, a failed precondition) leaves the hold
\* state and the progress cleared; a run on a candidate frame whose gesture is
\* not the tracked one leaves the hold tracking that gesture from the current
\* clock reading, with progress 0.
C16_HoldResetRestart ==
  [][(dirty /\ turn' = turn)
       => /\ ~CandidateFrame => holdStart' = Null /\ activeProgress' = Null
          /\ (CandidateFrame /\ holdStart # Null /\ holdStart.type # handData.gesture)
               => /\ holdStart' = [type |-> handData.gesture, time |-> now]
                  /\ activeProgress' # Null /\ activeProgress'.value = 0]_vars

\* C16 witness: a three-finger frame has replaced a Victory hold that had run
\* for TickMs or more: the hold starts now, with progress 0.
C16_Witness ==
  /\ hist.plc.restarted /\ holdStart # Null /\ holdStart.type = "THREE_FINGERS"
  /\ holdStart.time = now /\ now >= TickMs /\ activeProgress # Null /\ activeProgress.value = 0
  /\ hist.streak.gesture = "THREE_FINGERS" /\ hist.streak.since = now

\* The detection of the probe has been handed to the app.
Detected == hist.probe # Null /\ turn = "consumer"

\* C17: for every combination of the extension tests, the thumb distance, the
\* thumb direction and the pinch distance, the detection hands over a frame
\* whose gesture is one of the nine tags.
C17_ClassifierTotal == Detected => handData # Null /\ handData.gesture \in GestureTypes

\* C17 witness: a hand with the middle and the pinky extended and no pinch, a
\* pattern of no gesture, is classified NONE.
C17_Witness ==
  /\ Detected /\ hist.probe.fingers = Fingers(FALSE, TRUE, FALSE, TRUE)
  /\ hist.probe.pinchDist >= PINCH_THRESHOLD /\ handData.gesture = "NONE"

\* The Shaka pattern: thumb far, pinky extended, index, middle and ring curled.
ShakaPattern(lm) ==
  /\ lm.thumbToIndexPip > THUMB_FAR_THRESHOLD /\ lm.fingers.isPinkyExt
  /\ ~lm.fingers.isIndexExt /\ ~lm.fingers.isMiddleExt /\ ~lm.fingers.isRingExt

\* C18: when the thumb-to-index distance is below PINCH_THRESHOLD the frame is
\* pinching and its gesture is SHAKA if the Shaka pattern holds and PINCH for
\* every other state of the fingers and the thumb.
C18_PinchPrecedence ==
  (Detected /\ hist.probe.pinchDist < PINCH_THRESHOLD)
  => /\ handData.isPinching
     /\ handData.gesture = IF ShakaPattern(hist.probe) THEN "SHAKA" ELSE "PINCH"

\* C18 witness: a Victory hand with the thumb on the index tip is a PINCH.
C18_Witness ==
  /\ Detected /\ hist.probe.fingers = Fingers(TRUE, TRUE, FALSE, FALSE)
  /\ hist.probe.pinchDist < PINCH_THRESHOLD /\ handData.gesture = "PINCH"

\* The clock angles of a sector, in tenths of a degree from the top.
SectorAngles(sector) ==
  CASE sector = "move" -> (3240..3599) \cup (0..359)
    [] sector = "rotate" -> 360..1079
    [] sector = "scale" -> 1080..1799
    [] sector = "color" -> 1800..2519
    [] sector = "delete" -> 2520..3239
    [] OTHER -> {}
Sectors == {"move", "rotate", "scale", "color", "delete"}

\* The offset, in px, of a cursor at clock angle 0, 90, 180 or 270.
CompassOffset(a) ==
  CASE a = 0 -> <<0, -100>> [] a = 900 -> <<100, 0>> [] a = 1800 -> <<0, 100>>
    [] a = 2700 -> <<-100, 0>>

\* The sector has been chosen for the probed angle.
Aimed == hist.probe \in ProbeAngles /\ turn = "consumer"

InDeadZone ==
  /\ handData # Null
  /\ LET px == Quot(handData.x * InnerWidth, 2 * FP)
         py == Quot(handData.y * InnerHeight, 2 * FP)
     IN px * px + py * py <= DEAD_ZONE * DEAD_ZONE

\* C20: in RADIAL mode, a run of the gesture effect on a frame whose cursor is
\* at most DEAD_ZONE px from the centre leaves no sector active and, pinching or
\* not, leaves the mode, the transform mode, the selection and the store as they
\* were.
C20_RadialDeadZone ==
  [][(mode = "RADIAL" /\ dirty /\ turn' = turn /\ InDeadZone)
       => /\ activeRadialSector' = ""
          /\ mode' = mode /\ transformMode' = transformMode
          /\ selectedId' = selectedId /\ objects' = objects]_vars

\* C20 witness: a pinching frame 48 px right of and 12 px below the centre has
\* been processed in RADIAL mode: the mode is RADIAL and no sector is active.
C20_Witness ==
  /\ mode = "RADIAL" /\ ~dirty /\ turn = "consumer" /\ InDeadZone /\ handData.isPinching
  /\ handData.x = 80 /\ handData.y = -20 /\ activeRadialSector = ""
  /\ selectedId = "cube-1" /\ objects = INITIAL_OBJECTS

\* The gesture effect is about to run in RADIAL mode on a pinching frame whose
\* cursor is outside the dead zone.
RadialPinchFrame ==
  mode = "RADIAL" /\ dirty /\ handData # Null /\ handData.isPinching /\ ~InDeadZone

\* The transform mode a sector stands for.
SectorMode(sector) ==
  CASE sector = "move" -> "translate" [] sector = "rotate" -> "rotate"
    [] sector = "scale" -> "scale" [] sector = "color" -> "color" [] OTHER -> ""

C22_PinchDownOnly ==
  [][(mode = "RADIAL" /\ dirty /\ turn' = turn /\ hist.held)
       => /\ mode' = mode /\ transformMode' = transformMode
          /\ selectedId' = selectedId /\ objects' = objects]_vars

\* The frame predictWebcam makes of the probed hand, and whether its gesture is
\* switched off in the settings.
ProbedFrame == HandDataOf(hist.probe)
SwitchedOff(g) == g \in DOMAIN gestureSettings /\ ~gestureSettings[g]

\* C23: for every value of the settings, a detected frame whose gesture is
\* switched off is rendered with the gesture NONE and is otherwise as detected,
\* and every other frame, a Shaka or a Rock among them, is rendered as detected;
\* no run of the gesture effect starts or completes the hold of a gesture that
\* is switched off.
C23_DisabledGestures ==
  [][/\ (hist.probe \in ProbeLandmarks /\ turn = "producer" /\ turn' = "consumer")
          => /\ handData' = IF SwitchedOff(ProbedFrame.gesture)
                            THEN [ProbedFrame EXCEPT !.gesture = "NONE"] ELSE ProbedFrame
             /\ ProbedFrame.gesture \in {"SHAKA", "ROCK"} => handData' = ProbedFrame
     /\ (dirty /\ turn' = turn)
          => /\ (holdStart' # Null /\ holdStart' # holdStart) => ~SwitchedOff(holdStart'.type)
             /\ hist'.fired # "" => ~SwitchedOff(TriggerGesture(hist'.fired))]_vars

\* C23 witness: Victory is switched off and the hand has shown a Victory since
\* HOLD_DURATION ms: the rendered frame has the gesture NONE, no hold is running
\* and the mode is still SETTINGS.
C23_Witness ==
  /\ hist.probe \in ProbeLandmarks /\ ProbedFrame.gesture = "VICTORY"
  /\ SwitchedOff("VICTORY") /\ handData # Null /\ handData.gesture = "NONE"
  /\ hist.streak.gesture = "NONE" /\ now - hist.streak.since >= HOLD_DURATION
  /\ holdStart = Null /\ mode = "SETTINGS" /\ turn = "consumer" /\ ~dirty

\* C24: a run of the gesture effect in MENU mode on a pinching frame that
\* completes no hold: when the element under the cursor carries a creation kind,
\* it sets the pending kind to that kind and the mode to PLACING; when there is
\* no element there, or one without a creation kind, it leaves the pending kind
\* and the mode as they were.
C24_MenuPinchClick ==
  [][(mode = "MENU" /\ dirty /\ turn' = turn /\ handData # Null /\ handData.isPinching
        /\ hist'.fired = "")
       => IF hist'.plc.clicked # ""
          THEN /\ hist'.plc.clicked \in CreateAffordances
               /\ pendingObjectType' = hist'.plc.clicked /\ mode' = "PLACING"
          ELSE pendingObjectType' = pendingObjectType /\ mode' = "MENU"]_vars

\* C24 witness: a pinch on the sphere affordance of the menu has just set the
\* pending kind and the mode; the pinch is still held.
C24_Witness ==
  /\ hist.plc.clicked = "sphere" /\ pendingObjectType = "sphere" /\ mode = "PLACING"
  /\ handData # Null /\ handData.isPinching /\ dirty /\ waitingForPinchRelease

\* A run of the gesture effect toggles the tab: it starts the cooldown.
TabToggle == dirty /\ turn' = turn /\ ~hubPinchCooldown /\ hubPinchCooldown'

\* The last pinch made in HUB mode is over, no run of the gesture effect found
\* a tab affordance under it, and less than HUB_COOLDOWN ms passed from its
\* first frame to the frame of its release.
ShortPinchOver ==
  /\ hist.hub.over /\ hist.hub.plain /\ hist.hub.until - hist.hub.since < HUB_COOLDOWN
  /\ turn = "consumer" /\ ~dirty

\* C25 as stated: a pinch in HUB mode that hits no tab affordance and lasts
\* less than HUB_COOLDOWN ms toggles the tab exactly once.
C25_TogglesExactlyOnce == ShortPinchOver => hist.hub.toggles = 1

\* C25, amended: the tab is toggled only in HUB mode, by a run of the gesture
\* effect on a pinching frame with no tab affordance under the cursor, and any
\* two toggles are at least HUB_COOLDOWN ms apart; a pinch that hits no tab
\* affordance and lasts less than HUB_COOLDOWN ms toggles the tab at most once,
\* and exactly once when no cooldown was running at its first frame.
C25_HubToggleCooldown ==
  /\ [][TabToggle
          => /\ mode = "HUB" /\ handData # Null /\ handData.isPinching
             /\ hist'.hub.plain = hist.hub.plain
             /\ hubTab' # hubTab
             /\ hist.hub.last >= 0 => now - hist.hub.last >= HUB_COOLDOWN]_vars
  /\ [](ShortPinchOver
          => /\ hist.hub.toggles <= 1
             /\ ~hist.hub.gated => hist.hub.toggles = 1)

\* C25 witness: a pinch of less than HUB_COOLDOWN ms on no tab affordance has
\* toggled the tab from guide to ai, once.
C25_Witness ==
  /\ ShortPinchOver /\ hist.hub.toggles = 1 /\ ~hist.hub.gated /\ hubTab = "ai"
  /\ mode = "HUB" /\ hist.hub.until > hist.hub.since

\* The factor of the session ss: max(0.1, 1 + delta.y * sensitivity), delta
\* being the world-space move of the cursor since the pick.
ScaleFactor(ss, d) ==
  Max(MIN_SCALE_FACTOR, FP + Quot(SessionDelta(ss, d)[2] * SENSITIVITY, FP))
Scaled(v, f) == Vec(Quot(v[1] * f, FP), Quot(v[2] * f, FP), Quot(v[3] * f, FP))
Positive(v) == v[1] > 0 /\ v[2] > 0 /\ v[3] > 0

\* C26: in a drag session in scale mode the live scale of the dragged mesh is
\* the snapshot scale times the factor max(0.1, 1 + delta.y * sensitivity), on
\* each of the three axes, and after the pinch-up the stored scale is that
\* same product; the factor is at least 0.1 and, the snapshot scale being
\* positive, no axis of the live or the committed scale is zero or negative.
C26_ScaleFloor ==
  LET f == ScaleFactor(hist.sess, dragRef)
  IN /\ (dragRef.isDragging /\ hist.sess.tmode = "scale" /\ transformMode = "scale"
           /\ dragRef.targetId \in DOMAIN meshes)
          => /\ f >= MIN_SCALE_FACTOR
             /\ meshes[dragRef.targetId].scale = Scaled(dragRef.startObjScale, f)
             /\ Positive(dragRef.startObjScale) => Positive(meshes[dragRef.targetId].scale)
     /\ (hist.sess.endedBy = "release" /\ hist.sess.tmode = "scale"
           /\ hist.sess.id \in ObjectIds(objects))
          => /\ f >= MIN_SCALE_FACTOR
             /\ ObjectById(objects, hist.sess.id).scale = Scaled(dragRef.startObjScale, f)
             /\ Positive(dragRef.startObjScale)
                  => Positive(ObjectById(objects, hist.sess.id).scale)

\* C26 witness: a drag in scale mode moved the cursor one world unit down, the
\* raw factor was -0.5, and the committed scale is 0.1 on each axis.
C26_Witness ==
  /\ hist.sess.endedBy = "release" /\ hist.sess.tmode = "scale" /\ hist.sess.id = "cube-1"
  /\ SessionDelta(hist.sess, dragRef)[2] = -FP
  /\ FP + Quot(SessionDelta(hist.sess, dragRef)[2] * SENSITIVITY, FP) = -500
  /\ dragRef.startObjScale = Vec(FP, FP, FP)
  /\ ObjectById(objects, "cube-1").scale = Vec(100, 100, 100)

\* C27: a frame callback leaves every stored object other than the session's
\* target as it was; in translate mode it leaves the stored rotation, scale and
\* color of every object as they were, and in color mode the stored position,
\* rotation and scale.
C27_CommitWritesOnlyEdited ==
  [][(turn = "consumer" /\ turn' = "producer" /\ Len(objects') = Len(objects))
       => \A i \in 1..Len(objects) :
            /\ objects[i].id # dragRef.targetId => objects'[i] = objects[i]
            /\ transformMode = "translate"
                 => /\ objects'[i].rotation = objects[i].rotation
                    /\ objects'[i].scale = objects[i].scale
                    /\ objects'[i].color = objects[i].color
            /\ transformMode = "color"
                 => /\ objects'[i].position = objects[i].position
                    /\ objects'[i].rotation = objects[i].rotation
                    /\ objects'[i].scale = objects[i].scale]_vars

PosturePattern(tag, lm) ==
  LET f == lm.fingers
      far == lm.thumbToIndexPip > THUMB_FAR_THRESHOLD
      curled == ~f.isIndexExt /\ ~f.isMiddleExt /\ ~f.isRingExt /\ ~f.isPinkyExt
  IN CASE tag = "SHAKA" -> ShakaPattern(lm)
       [] tag = "VICTORY" -> f.isIndexExt /\ f.isMiddleExt /\ ~f.isRingExt /\ ~f.isPinkyExt
       [] tag = "ROCK" -> f.isIndexExt /\ f.isPinkyExt /\ ~f.isMiddleExt /\ ~f.isRingExt
       [] tag = "THUMBS_UP" -> curled /\ far /\ lm.thumbDeltaY < 0
       [] tag = "THUMB_DOWN" -> curled /\ far /\ lm.thumbDeltaY > 0
       [] tag = "THREE_FINGERS" -> f.isIndexExt /\ f.isMiddleExt /\ f.isRingExt /\ ~f.isPinkyExt
       [] tag = "POINTING" -> f.isIndexExt /\ ~f.isMiddleExt /\ ~f.isRingExt /\ ~f.isPinkyExt
       [] OTHER -> FALSE
PostureTags == {"SHAKA", "VICTORY", "ROCK", "THUMBS_UP", "THUMB_DOWN", "THREE_FINGERS", "POINTING"}
PosturesOf(lm) == {tag \in PostureTags : PosturePattern(tag, lm)}

\* C29: a detection satisfies at most one of the seven posture rules, and when
\* it is not pinching its gesture is the one rule it satisfies, or NONE when it
\* satisfies none: the order of the seven rules does not matter.
C29_PosturesExclusive ==
  Detected
    => /\ Cardinality(PosturesOf(hist.probe)) <= 1
       /\ hist.probe.pinchDist >= PINCH_THRESHOLD
            => /\ PosturesOf(hist.probe) # {} => handData.gesture \in PosturesOf(hist.probe)
               /\ PosturesOf(hist.probe) = {} => handData.gesture = "NONE"

\* C29 witness: a closed hand with the thumb far and up, not pinching, satisfies
\* the ThumbsUp rule alone and is classified THUMBS_UP.
C29_Witness ==
  /\ Detected /\ hist.probe.pinchDist >= PINCH_THRESHOLD
  /\ PosturesOf(hist.probe) = {"THUMBS_UP"} /\ handData.gesture = "THUMBS_UP"

\* C30: a run of the gesture effect on a frame whose gesture is a hold
\* candidate, when that gesture has been the gesture of every processed frame
\* for HOLD_DURATION ms or more and no hold has completed in that time, fires
\* the candidate's transition, however many frames were processed in between.
C30_HoldByClockOnly ==
  [][(/\ dirty /\ turn' = turn /\ handData # Null
      /\ HoldCandidate(handData.gesture, mode, selectedId) # ""
      /\ hist.streak.gesture = handData.gesture /\ hist.streak.fires = 0
      /\ now - hist.streak.since >= HOLD_DURATION)
       => hist'.fired = HoldCandidate(handData.gesture, mode, selectedId)]_vars

\* C30 witness: a Victory hold has fired on the second of two frames.
C30_Witness ==
  /\ hist.fired = "MENU" /\ hist.frames = 2 /\ now - hist.firedStart >= HOLD_DURATION
  /\ hist.streak.gesture = "VICTORY"

\* A height the ground snap leaves: 0.5, or 1 or more away from the ground.
SnappedY(y) == y = GROUND_Y \/ Abs(y) >= GROUND_SNAP

\* C31: after a frame callback that processed a frame in PLACING mode the
\* preview's height is 0.5 or at least 1 away from the ground, and so is the
\* height of every object a placement has stored.
C31_PreviewSnap ==
  /\ [][(turn = "consumer" /\ turn' = "producer" /\ mode = "PLACING" /\ handData # Null)
          => SnappedY(ghostPos'[2])]_vars
  /\ [](\A i \in 2..Len(objects) : SnappedY(objects[i].position[2]))

\* C31 witness: a sphere has just been placed 1 or more above the ground.
C31_Witness ==
  /\ hist.plc.event = "place" /\ Len(objects) = 2
  /\ objects[2].position = ghostPos /\ ghostPos[2] >= GROUND_SNAP

\* The hue shift of the rendered frame in an open session: delta.x * 0.5 *
\* sensitivity, delta being the cursor's move since the pick.
HueShift ==
  Quot((CursorWorld(handData.x, handData.y, dragRef.distanceToCamera)[1]
          - dragRef.startCursorPos[1]) * SENSITIVITY, 2 * FP)

\* C32: a frame callback that drags in color mode leaves the dragged mesh with
\* the hue (snapshot hue + shift) mod 1, a value from 0 up to but not including
\* 1, and with the snapshot's saturation and lightness.
C32_HueWrap ==
  [][(/\ turn = "consumer" /\ turn' = "producer" /\ transformMode = "color"
      /\ dragRef.isDragging /\ dragRef.targetId \in DOMAIN meshes
      /\ handData # Null /\ handData.isPinching /\ mode \in {"VIEW", "EDIT"}
      /\ ~waitingForPinchRelease)
       => LET c == meshes'[dragRef.targetId].color
          IN /\ c.h = (dragRef.startColorHSL.h + HueShift) % FP
             /\ c.h >= 0 /\ c.h < FP
             /\ c.s = dragRef.startColorHSL.s /\ c.l = dragRef.startColorHSL.l]_vars

\* C32 witness: a drag has shifted the snapshot hue 0.25 by -0.75; the negative
\* remainder -0.5 was moved up to the hue 0.5.
C32_Witness ==
  /\ dragRef.isDragging /\ turn = "producer" /\ transformMode = "color"
  /\ handData # Null /\ handData.isPinching /\ HueShift = -750
  /\ dragRef.startColorHSL.h = 250 /\ meshes[dragRef.targetId].color.h = 500

\* C33: the hold state is absent exactly when the progress indicator is
\* absent; when they are present the tracked trigger is SHAKA, ROCK, VICTORY or
\* THREE_FINGERS and the progress value is between 0 and 100.
C33_HoldAndProgress ==
  /\ holdStart = Null <=> activeProgress = Null
  /\ holdStart # Null
       => /\ holdStart.type \in {"SHAKA", "ROCK", "VICTORY", "THREE_FINGERS"}
          /\ activeProgress.value >= 0 /\ activeProgress.value <= 100

\* C33 witness: a Rock hold is half way, and the indicator shows 50.
C33_Witness ==
  /\ holdStart # Null /\ holdStart.type = "ROCK" /\ now - holdStart.time = 500
  /\ activeProgress # Null /\ activeProgress.value = 50

\* C34: whenever the mode is RADIAL a selection is present; a step that enters
\* RADIAL leaves a selection present, and a step that clears the selection
\* leaves the mode other than RADIAL.
C34_RadialHasSelection ==
  /\ [](mode = "RADIAL" => selectedId # NoId)
  /\ [][/\ (mode # "RADIAL" /\ mode' = "RADIAL") => (selectedId # NoId /\ selectedId' = selectedId)
        /\ (selectedId # NoId /\ selectedId' = NoId) => mode' # "RADIAL"]_vars

\* C34 witness: the radial menu has been opened again, on the imported sphere.
C34_Witness ==
  /\ mode = "RADIAL" /\ selectedId = "sphere-1" /\ hist.fired = "RADIAL"

C36_PlacingHasPending ==
  /\ [](mode = "PLACING" => pendingObjectType \in ObjectTypes)
  /\ [][/\ (mode # "PLACING" /\ mode' = "PLACING") => pendingObjectType' \in ObjectTypes
        /\ (pendingObjectType # "" /\ pendingObjectType' = "") => mode' # "PLACING"]_vars

\* C36 witness: a placement has cleared the pending kind and left PLACING for
\* EDIT.
C36_Witness ==
  /\ hist.plc.event = "place" /\ mode = "EDIT" /\ pendingObjectType = ""
  /\ selectedId \in ObjectIds(objects)

\* C37: after every frame callback, an active drag session has its target id
\* set, and the frame the callback processed was a hand frame with isPinching
\* true in a mode other than MENU, RADIAL, HUB and SETTINGS; so the session is
\* never active after a callback on a null frame, a frame that is not pinching,
\* or one of those four modes.
C37_SessionOnlyOnHeldPinch ==
  [][(turn = "consumer" /\ turn' = "producer" /\ dragRef'.isDragging)
       => /\ dragRef'.targetId # NoId
          /\ handData # Null
          /\ handData.isPinching
          /\ mode \notin {"MENU", "RADIAL", "HUB", "SETTINGS"}]_vars

\* A frame callback has left the session active on cube-1, on a pinching frame.
C37_Witness ==
  /\ turn = "producer" /\ dragRef.isDragging /\ dragRef.targetId = "cube-1"
  /\ handData # Null /\ handData.isPinching

\* C38: with the initial gesture settings the frame App holds is the frame as
\* classified: a frame tagged VICTORY, ROCK, THUMBS_UP, THUMB_DOWN,
\* THREE_FINGERS, POINTING or NONE has isPinching false, a frame tagged PINCH
\* has isPinching true, so only PINCH and SHAKA frames are pinching; and an
\* effect run that completes a hold on a pinching frame, or with a drag session
\* active, completes the Shaka hold.
TagAgreesWithPinch(hd) ==
  /\ hd.gesture \in {"VICTORY", "ROCK", "THUMBS_UP", "THUMB_DOWN", "THREE_FINGERS",
                     "POINTING", "NONE"} => ~hd.isPinching
  /\ hd.gesture = "PINCH" => hd.isPinching
  /\ hd.isPinching => hd.gesture \in {"PINCH", "SHAKA"}
C38_OnlyShakaHoldOnPinch ==
  /\ [](handData # Null => TagAgreesWithPinch(handData))
  /\ [][(dirty /\ turn' = turn /\ hist'.fired # ""
          /\ (handData.isPinching \/ dragRef.isDragging))
         => (hist'.fired = "CANCEL" /\ handData.gesture = "SHAKA")]_vars

\* A Shaka hold has completed on a pinching frame with the drag session on
\* cube-1 still active.
C38_Witness ==
  /\ hist.fired = "CANCEL" /\ handData # Null /\ handData.gesture = "SHAKA"
  /\ handData.isPinching /\ dragRef.isDragging

\* C39: the frame App stores is the delivered frame with at most its tag
\* changed to NONE: x, y, pinchDistance and isPinching are the delivered ones;
\* and when the delivered frame is tagged PINCH, the frame callback and the
\* gesture effect do on the stored frame what they would do on the delivered
\* one, whether or not the Pinch gesture is enabled.
PassedOn(raw, hd) ==
  IF raw = Null THEN hd = Null
  ELSE /\ hd # Null
       /\ hd.x = raw.x /\ hd.y = raw.y
       /\ hd.pinchDistance = raw.pinchDistance /\ hd.isPinching = raw.isPinching
       /\ hd.gesture \in {raw.gesture, "NONE"}
ManagerState ==
  [prevHandPos |-> prevHandPos, waitingForPinchRelease |-> waitingForPinchRelease,
   dragRef |-> dragRef, ghostPos |-> ghostPos, meshes |-> meshes]
DrivenAsDelivered ==
  LET asDelivered == [AppState EXCEPT !.handData = hist.raw]
  IN /\ \A hit \in Hits :
          FrameLogic(AppState, ManagerState, hit, now)
            = FrameLogic(asDelivered, ManagerState, hit, now)
     /\ \A element \in ElementsAt(mode) :
          GestureLogic(AppState, now, element)
            = [GestureLogic(asDelivered, now, element) EXCEPT !.handData = handData]
C39_DowngradeKeepsPinch ==
  /\ [][(turn = "producer" /\ turn' = "consumer" /\ ~hist'.stalled)
         => PassedOn(hist'.raw, handData')]_vars
  /\ []((turn = "consumer" /\ ~hist.stalled /\ hist.raw # Null /\ hist.raw.gesture = "PINCH")
         => DrivenAsDelivered)

\* With the Pinch gesture disabled a pinching frame, stored as NONE, has
\* opened a drag session on cube-1.
C39_Witness ==
  /\ ~gestureSettings["PINCH"] /\ handData # Null /\ handData.gesture = "NONE"
  /\ handData.isPinching /\ hist.raw.gesture = "PINCH"
  /\ dragRef.isDragging /\ dragRef.targetId = "cube-1"

\* C40: the mode is never CREATE; a run of the gesture effect or a frame
\* callback that changes the mode sets it to VIEW, EDIT, MENU, PLACING, RADIAL
\* or SETTINGS; and the mode becomes HUB only by a click in the control panel,
\* that is in SETTINGS mode, in a step that is neither of the two.
GestureDriven == dirty \/ turn' # turn
C40_HubOnlyByButton ==
  /\ [](mode \in AppModes \ {"CREATE"})
  /\ [][(GestureDriven /\ mode' # mode)
         => mode' \in {"VIEW", "EDIT", "MENU", "PLACING", "RADIAL", "SETTINGS"}]_vars
  /\ [][(mode' = "HUB" /\ mode # "HUB") => (~GestureDriven /\ mode = "SETTINGS")]_vars

\* The help button has just been clicked: the mode is HUB and the gesture
\* effect has not yet run on it.
C40_Witness == mode = "HUB" /\ dirty /\ holdStart = Null /\ selectedId = NoId

====
